---- MODULE Spec2Model ----
(***************************************************************************)
(* Model of the text relocation and patch engine of                        *)
(* src/src/lib/text-processor.ts (class TextProcessor).                    *)
(*                                                                         *)
(* Strings are TLA+ strings; a file is its content string, lines are       *)
(* obtained with split('\n') as the code does.  Scores that the code keeps *)
(* in floating point are kept as integers: validation scores in half       *)
(* points (the code's smallest increment is 0.5) and confidence in         *)
(* quarters (the code divides the score by 4.0), so 4 is 1.0 and 2 is 0.5. *)
(***************************************************************************)
EXTENDS Integers, Sequences, FiniteSets, TLC

VARIABLES
  fs,         \* path -> content string, or NoFile
  pc,         \* position of the processTextEdit invocation
  req,        \* the EditContext of the invocation
  sourceDir,  \* TextProcessor.sourceDir, set by the constructor
  matches,    \* allMatches returned by findTextInSourceFiles
  scored,     \* scoredMatches returned by scoreMatchesWithContext
  best,       \* bestMatch selected by findBestMatch
  pending,    \* updatedContent computed by updateSourceFile, not yet written
  processResult, \* what processTextEdit gave back to its caller
  fs0,        \* content of every file when the invocation started
  writes,     \* log of the writes made by the invocation
  envSteps,   \* number of steps another writer has taken
  faults,     \* number of I/O failures injected so far
  research,   \* result of a search for newText after a successful edit
  nz,         \* harness of the normalizer
  bq,         \* harness of the uniqueness comparison
  gone,       \* the files another actor removed during the invocation
  duo,        \* two invocations of processTextEdit in one process
  api,        \* the routes, the edits table and the outbound requests
  job,        \* a run of the apply-edits script
  lab,        \* harness of the line functions
  bench,      \* harness of the validator, the scorer and the ranker
  twin        \* the dev route and an apply-edits run on one edit record

vars == <<fs, pc, req, sourceDir, matches, scored, best, pending, processResult,
          fs0, writes, envSteps, faults, research, nz, bq, gone, duo, api, job, lab,
          bench, twin>>

engineVars == <<fs, pc, req, sourceDir, matches, scored, best, pending, processResult,
                fs0, writes, envSteps, faults, research, gone>>

\* the variables of the harnesses that came after the engine
laterVars == <<duo, api, job, lab, bench, twin>>

-----------------------------------------------------------------------------
(* JavaScript string primitives                                            *)
(* A value that a definition uses more than once is a parameter of a local *)
(* operator, so that it is computed once.                                  *)

Min(a, b) == IF a <= b THEN a ELSE b
Max(a, b) == IF a >= b THEN a ELSE b

Ch(s, i) == SubSeq(s, i, i)

\* s.substring(a, b) with 0-based arguments, clamped and swapped as in JS
JSSubstring(s, a, b) ==
  LET Cut(ca, cb) == SubSeq(s, Min(ca, cb) + 1, Max(ca, cb))
  IN Cut(Max(0, Min(a, Len(s))), Max(0, Min(b, Len(s))))

\* t occurs in s at the 1-based position k
StartsAt(s, t, k) == k >= 1 /\ k + Len(t) - 1 <= Len(s) /\ SubSeq(s, k, k + Len(t) - 1) = t

\* 1-based position of the first occurrence of t in s at or after k; 0 if none
IndexFrom(s, t, k) ==
  LET At(j) == SubSeq(s, j, j + Len(t) - 1) = t
      First(last) ==
        IF \E j \in k..last : At(j)
        THEN CHOOSE j \in k..last : At(j) /\ \A i \in k..(j - 1) : ~At(i)
        ELSE 0
  IN First(Len(s) - Len(t) + 1)

IndexOf(s, t) == IndexFrom(s, t, 1)

Includes(s, t) == \E j \in 1..(Len(s) - Len(t) + 1) : SubSeq(s, j, j + Len(t) - 1) = t

StartsWith(s, t) == StartsAt(s, t, 1)

EndsWith(s, t) == Len(t) <= Len(s) /\ SubSeq(s, Len(s) - Len(t) + 1, Len(s)) = t

\* every occurrence of the non-empty literal t replaced by r, left to right
RECURSIVE ReplaceAllLit(_, _, _)
ReplaceAllLit(s, t, r) ==
  LET At(k) ==
        IF k = 0 THEN s
        ELSE SubSeq(s, 1, k - 1) \o r \o ReplaceAllLit(SubSeq(s, k + Len(t), Len(s)), t, r)
  IN At(IndexOf(s, t))

WhiteSpace == {" ", "\t", "\n", "\r"}

\* 1-based position of the first character of s at or after i that is not in
\* cls; Len(s) + 1 if there is none
SkipWhile(s, i, cls) ==
  IF \E j \in i..Len(s) : Ch(s, j) \notin cls
  THEN CHOOSE j \in i..Len(s) : Ch(s, j) \notin cls /\ \A k \in i..(j - 1) : Ch(s, k) \in cls
  ELSE Max(i, Len(s) + 1)

\* position of the last character of s at or before i that is not in cls; 0
\* if there is none
SkipBack(s, i, cls) ==
  IF \E j \in 1..i : Ch(s, j) \notin cls
  THEN CHOOSE j \in 1..i : Ch(s, j) \notin cls /\ \A k \in (j + 1)..i : Ch(s, k) \in cls
  ELSE 0

\* s.trim()
Trim(s) == SubSeq(s, SkipWhile(s, 1, WhiteSpace), SkipBack(s, Len(s), WhiteSpace))

\* s.replace(/\s+/g, ' ') on the characters lo..hi of s: the first character
\* of a whitespace run becomes a space and the rest of the run disappears
RECURSIVE CollapseRange(_, _, _)
CollapseRange(s, lo, hi) ==
  IF lo > hi THEN ""
  ELSE IF lo = hi
       THEN (IF Ch(s, lo) \notin WhiteSpace THEN Ch(s, lo)
             ELSE IF lo > 1 /\ Ch(s, lo - 1) \in WhiteSpace THEN "" ELSE " ")
       ELSE CollapseRange(s, lo, (lo + hi) \div 2) \o CollapseRange(s, ((lo + hi) \div 2) + 1, hi)

CollapseWhiteSpace(s) ==
  IF \E i \in 1..Len(s) : Ch(s, i) \in WhiteSpace THEN CollapseRange(s, 1, Len(s)) ELSE s

Upper == "ABCDEFGHIJKLMNOPQRSTUVWXYZ"
Lower == "abcdefghijklmnopqrstuvwxyz"
Digits == "0123456789"
UpperChars == {Ch(Upper, i) : i \in 1..Len(Upper)}
LetterChars == UpperChars \cup {Ch(Lower, i) : i \in 1..Len(Lower)}
DigitChars == {Ch(Digits, i) : i \in 1..Len(Digits)}
\* the regular expression class \w
WordChars == LetterChars \cup DigitChars \cup {"_"}

LowerOf(c) ==
  IF c \in UpperChars THEN Ch(Lower, CHOOSE i \in 1..Len(Upper) : Ch(Upper, i) = c) ELSE c

RECURSIVE LowerRange(_, _, _)
LowerRange(s, lo, hi) ==
  IF lo > hi THEN ""
  ELSE IF lo = hi THEN LowerOf(Ch(s, lo))
       ELSE LowerRange(s, lo, (lo + hi) \div 2) \o LowerRange(s, ((lo + hi) \div 2) + 1, hi)

ToLowerCase(s) ==
  IF \E i \in 1..Len(s) : Ch(s, i) \in UpperChars THEN LowerRange(s, 1, Len(s)) ELSE s

\* s.split(sep) for a one-character separator
RECURSIVE SplitBy(_, _)
SplitBy(s, sep) ==
  LET At(k) ==
        IF k = 0 THEN <<s>>
        ELSE <<SubSeq(s, 1, k - 1)>> \o SplitBy(SubSeq(s, k + 1, Len(s)), sep)
  IN At(IndexOf(s, sep))

\* content.split('\n')
SplitLines(content) == SplitBy(content, "\n")

\* lines.join('\n')
RECURSIVE JoinLines(_)
JoinLines(lines) ==
  IF Len(lines) = 0 THEN ""
  ELSE IF Len(lines) = 1 THEN lines[1]
       ELSE lines[1] \o "\n" \o JoinLines(Tail(lines))

-----------------------------------------------------------------------------
(* Text normalizer: TextProcessor.cleanSearchText                          *)

\* the entityMap of cleanSearchText, in its iteration order
entityMap ==
  << <<"&ldquo;", "\"">>, <<"&rdquo;", "\"">>, <<"&lsquo;", "'">>, <<"&rsquo;", "'">>,
     <<"&quot;", "\"">>,  <<"&#39;", "'">>,    <<"&amp;", "&">>,   <<"&lt;", "<">>,
     <<"&gt;", ">">>,     <<"&ndash;", "-">>,  <<"&mdash;", "-">>, <<"&nbsp;", " ">>,
     <<"&hellip;", "...">> >>

\* the forEach over entityMap, from its entry i on (every entity starts
\* with &, so a string without & stays as it is)
RECURSIVE ReplaceEntities(_, _)
ReplaceEntities(s, i) ==
  LET Go(next) == IF Len(next) < 0 THEN "" ELSE ReplaceEntities(next, i + 1)
  IN IF i > Len(entityMap) \/ ~Includes(s, "&") THEN s
     ELSE Go(ReplaceAllLit(s, entityMap[i][1], entityMap[i][2]))

\* the quote characters the two while loops of cleanSearchText strip; the
\* modelled alphabet is ASCII, where char codes 34 and 39 are the only ones
QuoteChars == {"\"", "'"}

\* while (cleaned starts with a quote) cleaned = cleaned.substring(1)
StripLeadingQuotes(s) == SubSeq(s, SkipWhile(s, 1, QuoteChars), Len(s))

\* while (cleaned ends with a quote) cleaned = cleaned.substring(0, length - 1)
StripTrailingQuotes(s) == SubSeq(s, 1, SkipBack(s, Len(s), QuoteChars))

\* cleaned.replace(/\.$/, '')
StripTrailingPeriod(s) == IF EndsWith(s, ".") THEN SubSeq(s, 1, Len(s) - 1) ELSE s

cleanSearchText(text) ==
  Trim(StripTrailingPeriod(StripTrailingQuotes(StripLeadingQuotes(
    CollapseWhiteSpace(ReplaceEntities(Trim(text), 1))))))

-----------------------------------------------------------------------------
(* Variation generator: TextProcessor.extractDynamicPart                   *)

\* normalizeQuotes: on the ASCII alphabet the character replacements leave
\* the string alone and only the whitespace collapse acts
normalizeQuotes(str) == CollapseWhiteSpace(str)

\* text.replace(/^[quotes]+|[quotes]+$/g, '').trim()
withoutQuotesOf(text) == Trim(StripTrailingQuotes(StripLeadingQuotes(text)))

\* text.replace(staticPrefixes[k], '').trim(); the first two prefixes are
\* emoji and symbol classes that no ASCII text starts with
StripStaticPrefix(k, text) ==
  LET Cut(afterDigits) ==
        CASE k = 3 /\ afterDigits > 1 /\ Ch(text, afterDigits) = "."
               -> SkipWhile(text, afterDigits + 1, WhiteSpace)
          [] k = 4 /\ Len(text) >= 2 /\ Ch(text, 1) \in LetterChars /\ Ch(text, 2) = ")"
               -> SkipWhile(text, 3, WhiteSpace)
          [] k = 5 /\ Len(text) >= 1 /\ Ch(text, 1) = "-"
               -> SkipWhile(text, 2, WhiteSpace)
          [] OTHER -> 1
  IN Trim(SubSeq(text, Cut(SkipWhile(text, 1, DigitChars)), Len(text)))

staticPrefixCount == 5

\* what one stripped form pushes onto variations: itself and its normalized form
PushStripped(text, stripped) ==
  LET Normalized(n) == IF n # stripped THEN <<n>> ELSE <<>>
  IN IF stripped # "" /\ stripped # text
     THEN <<stripped>> \o Normalized(normalizeQuotes(stripped))
     ELSE <<>>

RECURSIVE PushPrefixes(_, _)
PushPrefixes(text, k) ==
  IF k > staticPrefixCount THEN <<>>
  ELSE PushStripped(text, StripStaticPrefix(k, text)) \o PushPrefixes(text, k + 1)

\* Array.from(new Set(list)): duplicates dropped, first occurrences kept in order
RECURSIVE Dedupe(_)
Dedupe(list) ==
  LET Add(init, last) ==
        IF \E i \in 1..Len(init) : init[i] = last THEN init ELSE Append(init, last)
  IN IF Len(list) = 0 THEN <<>>
     ELSE Add(Dedupe(SubSeq(list, 1, Len(list) - 1)), list[Len(list)])

\* the suffix patterns are emoji and symbol classes only and push nothing
\* for ASCII text
extractDynamicPart(text) ==
  LET Normalized(n) == IF n # text THEN <<n>> ELSE <<>>
  IN Dedupe(<<text>>
            \o Normalized(normalizeQuotes(text))
            \o PushStripped(text, withoutQuotesOf(text))
            \o PushPrefixes(text, 1))

-----------------------------------------------------------------------------
(* Exact-match predicate: TextProcessor.hasExactTextMatch                  *)

hasExactTextMatch(line, searchText) ==
  LET q == "\""
      t == searchText
      \* the backtick-quoted pattern of basicQuotedPatterns is left out: the
      \* modelled alphabet has no backtick, so it matches no modelled line
      linePatterns ==
        { q \o t \o q, "'" \o t \o "'",
          "&quot;" \o t \o "&quot;", "&ldquo;" \o t \o "&rdquo;",
          "=" \o q \o t \o q, "='" \o t \o "'",
          ": " \o q \o t \o q, ": '" \o t \o "'",
          "quote=" \o q \o t \o q, "quote='" \o t \o "'",
          "text: '" \o t \o "'", "text: " \o q \o t \o q,
          q \o t \o "." \o q, "'" \o t \o ".'",
          q \o t \o "!" \o q, "'" \o t \o "!'",
          q \o t \o "?" \o q, "'" \o t \o "?'",
          q \o t \o "." \o q \o ",", "'" \o t \o ".',",
          q \o t \o q \o ",", "'" \o t \o "',",
          "quote=" \o q \o t \o "." \o q, "quote='" \o t \o ".'",
          "text: '" \o t \o ".',", "text: " \o q \o t \o "." \o q \o ",",
          "text: '" \o t \o ".'", "text: " \o q \o t \o "." \o q,
          "&quot;" \o t \o ".&quot;",
          "&ldquo;" \o t \o "!&rdquo;", "&ldquo;" \o t \o ".&rdquo;",
          ">" \o t \o "<" }
      trimmedLine == Trim(line)
  IN \/ \E pat \in linePatterns : Includes(line, pat)
     \/ trimmedLine \in { t, q \o t \o q, "'" \o t \o "'", t \o ".", t \o "!", t \o "?" }

-----------------------------------------------------------------------------
(* Match classifier: isAttributeMatch, isTextContentMatch                  *)

NoneIn(s, from, to, c) == \A i \in from..to : Ch(s, i) # c

\* /\w+\s*=\s*OPEN[^CLOSE]*variation[^CLOSE]*CLOSE/i tested on line
AttributePattern(line, variation, open, close) ==
  LET n == Len(variation)
      Quoted(low, v, o) ==
        /\ o <= Len(line) /\ Ch(line, o) = open
        /\ \E p \in (o + 1)..(Len(line) - n + 1) :
             /\ SubSeq(low, p, p + n - 1) = v
             /\ NoneIn(line, o + 1, p - 1, close)
             /\ \E r \in (p + n)..Len(line) :
                  Ch(line, r) = close /\ NoneIn(line, p + n, r - 1, close)
      Named(w) == w >= 1 /\ Ch(line, w) \in WordChars
      Test(low, v) ==
        \E e \in 1..Len(line) :
          /\ Ch(line, e) = "="
          /\ Named(SkipBack(line, e - 1, WhiteSpace))
          /\ Quoted(low, v, SkipWhile(line, e + 1, WhiteSpace))
  IN /\ Includes(line, "=")
     /\ Test(ToLowerCase(line), ToLowerCase(variation))

isAttributeMatch(line, variation) ==
  \/ AttributePattern(line, variation, "\"", "\"")
  \/ AttributePattern(line, variation, "'", "'")
  \/ AttributePattern(line, variation, "{", "}")

contentAttributes ==
  { "quote=", "title=", "alt=", "placeholder=", "label=", "content=",
    "description=", "text=", "value=", "message=", "caption=" }

hasContentAttribute(line) ==
  LET Has(low) == \E attr \in contentAttributes : Includes(low, attr)
  IN Has(ToLowerCase(line))

\* s.replace(/OPEN[^CLOSE]*CLOSE/g, OPEN CLOSE)
RECURSIVE BlankSpans(_, _, _)
BlankSpans(s, open, close) ==
  LET Cut(i, j) ==
        IF i = 0 \/ j = 0 THEN s
        ELSE SubSeq(s, 1, i - 1) \o open \o close
             \o BlankSpans(SubSeq(s, j + 1, Len(s)), open, close)
      From(i) == Cut(i, IF i = 0 THEN 0 ELSE IndexFrom(s, close, i + 1))
  IN From(IndexOf(s, open))

isTextContentMatch(line, variation) ==
  IF ~isAttributeMatch(line, variation) THEN TRUE
  ELSE IF hasContentAttribute(line) /\ Includes(line, variation) THEN TRUE
  ELSE Includes(BlankSpans(BlankSpans(BlankSpans(line, "\"", "\""), "'", "'"), "{", "}"),
                variation)

-----------------------------------------------------------------------------
(* Back-solving the on-disk literal: extractOriginalTextFromLine,          *)
(* findTextWithHtmlEntities                                                *)

NotFound == [found |-> FALSE, text |-> ""]
Found(t) == [found |-> TRUE, text |-> t]

EntityClass == LetterChars \cup DigitChars \cup {"#"}

\* originalLine.slice(i - 1).match(/^&[a-zA-Z0-9#]+;/): the entity at the
\* 1-based position i, or "" when there is none
EntityAt(s, i) ==
  LET Upto(e) == IF e > i + 1 /\ e <= Len(s) /\ Ch(s, e) = ";" THEN SubSeq(s, i, e) ELSE ""
  IN IF Ch(s, i) = "&" THEN Upto(SkipWhile(s, i + 1, EntityClass)) ELSE ""

\* the positions at which an iteration of either while loop can stand, from
\* the position i on: an iteration at an entity jumps over it
RECURSIVE TokenStartsFrom(_, _)
TokenStartsFrom(s, i) ==
  LET Step(entity) == {i} \cup TokenStartsFrom(s, i + Max(1, Len(entity)))
  IN IF i > Len(s) THEN {} ELSE Step(EntityAt(s, i))

\* what one iteration adds to normalizedIndex
NormalizedLengthAt(s, i) ==
  LET Of(entity) == Len(cleanSearchText(IF entity # "" THEN entity ELSE Ch(s, i)))
  IN Of(EntityAt(s, i))

\* what each iteration position of the line adds to normalizedIndex
TokenLengths(s) ==
  LET Over(starts) == [i \in starts |-> NormalizedLengthAt(s, i)] @@ <<>>
  IN Over(TokenStartsFrom(s, 1))

\* the sum of the lengths over the iterations standing in from..(to - 1)
NormalizedLengthBetween(lengths, from, to) ==
  Cardinality({pair \in ((from..(to - 1)) \cap DOMAIN lengths) \X (1..3) :
                 pair[2] <= lengths[pair[1]]})

\* where a while loop that starts at from stops: the first iteration position
\* (or the end of the line, last + 1) by which the accumulated length
\* reached target
LoopStop(lengths, last, from, target) ==
  LET Least(stops) == CHOOSE p \in stops : \A q \in stops : p <= q
  IN Least({p \in (DOMAIN lengths \cup {last + 1}) :
              p >= from /\ (p = last + 1
                            \/ NormalizedLengthBetween(lengths, from, p) >= target)})

findTextWithHtmlEntities(originalLine, normalizedSearchText) ==
  LET Check(candidate) ==
        IF cleanSearchText(candidate) = normalizedSearchText THEN Found(candidate)
        ELSE NotFound
      \* while (remainingSearchLength > 0 && originalIndex < length)
      Ends(lengths, candidateStart) ==
        Check(SubSeq(originalLine, candidateStart,
                     LoopStop(lengths, Len(originalLine), candidateStart,
                              Len(normalizedSearchText)) - 1))
      \* while (normalizedIndex < searchIndex && originalIndex < length)
      Starts(lengths, searchIndex) ==
        IF searchIndex = -1 THEN NotFound
        ELSE Ends(lengths, LoopStop(lengths, Len(originalLine), 1, searchIndex))
  IN Starts(TokenLengths(originalLine),
            IndexOf(cleanSearchText(originalLine), normalizedSearchText) - 1)

\* 1-based position of the first character of s at or after i that is in
\* cls; Len(s) + 1 if there is none
SkipUntil(s, i, cls) ==
  IF \E j \in i..Len(s) : Ch(s, j) \in cls
  THEN CHOOSE j \in i..Len(s) : Ch(s, j) \in cls /\ \A k \in i..(j - 1) : Ch(s, k) \notin cls
  ELSE Max(i, Len(s) + 1)

\* where the quoted run opened at i closes with the same quote; 0 if the
\* run ends at the other quote or at the end of the line
QuoteCloser(line, i) ==
  LET Close(stop) == IF stop <= Len(line) /\ Ch(line, stop) = Ch(line, i) THEN stop ELSE 0
  IN Close(SkipUntil(line, i + 1, QuoteChars))

\* originalLine.match(/(['"])([^'"]*)\1/): the captured content of the
\* leftmost match (the backtick alternative of the opening class needs a
\* backtick on the line, which the modelled alphabet does not have)
QuotedTextMatch(line) ==
  LET Opens(i) == Ch(line, i) \in QuoteChars /\ QuoteCloser(line, i) # 0
      Content(first) == SubSeq(line, first + 1, QuoteCloser(line, first) - 1)
  IN IF \E i \in 1..Len(line) : Opens(i)
     THEN Found(Content(CHOOSE i \in 1..Len(line) :
                          Opens(i) /\ \A j \in 1..(i - 1) : ~Opens(j)))
     ELSE NotFound

\* the nested for loops over length (descending) and start (ascending): the
\* first candidate they reach is the longest one, and the leftmost of those
ScanCandidates(line, search) ==
  LET Hit(length, start) == cleanSearchText(JSSubstring(line, start, start + length)) = search
      HitOf(length) == \E start \in 0..(Len(line) - length) : Hit(length, start)
      FirstStart(length) ==
        CHOOSE start \in 0..(Len(line) - length) :
          Hit(length, start) /\ \A before \in 0..(start - 1) : ~Hit(length, before)
      Candidate(length, start) == Found(JSSubstring(line, start, start + length))
      At(length) == Candidate(length, FirstStart(length))
      Longest(lo, hi) ==
        IF \E length \in lo..hi : HitOf(length)
        THEN At(CHOOSE length \in lo..hi :
                  HitOf(length) /\ \A longer \in (length + 1)..hi : ~HitOf(longer))
        ELSE NotFound
  IN Longest(Len(search) - 5, Min(Len(line), Len(search) + 10))

extractOriginalTextFromLine(originalLine, normalizedSearchText, normalizedLine) ==
  LET Scanned(scan) == IF scan.found THEN scan.text ELSE normalizedSearchText
      Quoted(quoted) ==
        IF quoted.found /\ cleanSearchText(quoted.text) = normalizedSearchText
        THEN quoted.text
        ELSE Scanned(ScanCandidates(originalLine, normalizedSearchText))
      Trimmed(text, trimmed) ==
        IF cleanSearchText(trimmed) = normalizedSearchText THEN trimmed ELSE text
      WithEntities(withEntities) ==
        IF withEntities.found /\ withEntities.text # ""
        THEN Trimmed(withEntities.text, Trim(withEntities.text))
        ELSE Quoted(QuotedTextMatch(originalLine))
  IN IF ~Includes(normalizedLine, normalizedSearchText) THEN normalizedSearchText
     ELSE WithEntities(IF Includes(originalLine, "&")
                       THEN findTextWithHtmlEntities(originalLine, normalizedSearchText)
                       ELSE NotFound)

-----------------------------------------------------------------------------
(* Source patcher: String.prototype.replace, replaceJsonValue,             *)
(* preserveEntityQuotesSimple, replaceTextContent                          *)

RECURSIVE GetSubstitution(_, _, _, _)
\* expansion of the $ patterns of a replacement string: $$, $& and $'
\* ($1..$9 stay literal without capture groups; the pattern for the text
\* before the match needs a backtick, which the modelled alphabet lacks)
GetSubstitution(repl, matched, before, after) ==
  IF Len(repl) = 0 THEN ""
  ELSE IF Ch(repl, 1) = "$" /\ Len(repl) >= 2 /\ Ch(repl, 2) \in {"$", "&", "'"}
       THEN (CASE Ch(repl, 2) = "$" -> "$"
               [] Ch(repl, 2) = "&" -> matched
               [] Ch(repl, 2) = "'" -> after)
            \o GetSubstitution(SubSeq(repl, 3, Len(repl)), matched, before, after)
       ELSE Ch(repl, 1) \o GetSubstitution(Tail(repl), matched, before, after)

\* the replacement string as String.prototype.replace inserts it
Substitute(repl, matched, before, after) ==
  IF Includes(repl, "$") THEN GetSubstitution(repl, matched, before, after) ELSE repl

\* s.replace(pattern, repl) with a string pattern: the first occurrence only
ReplaceFirst(s, pattern, repl) ==
  LET At(k) ==
        IF k = 0 THEN s
        ELSE SubSeq(s, 1, k - 1)
             \o Substitute(repl, pattern, SubSeq(s, 1, k - 1),
                           SubSeq(s, k + Len(pattern), Len(s)))
             \o SubSeq(s, k + Len(pattern), Len(s))
  IN At(IndexOf(s, pattern))

RECURSIVE ReplaceGlobalFrom(_, _, _, _)
ReplaceGlobalFrom(s, literal, repl, from) ==
  LET Sub(k) == Substitute(repl, literal, SubSeq(s, 1, k - 1),
                           SubSeq(s, k + Len(literal), Len(s)))
      At(k) ==
        IF k = 0 THEN SubSeq(s, from, Len(s))
        ELSE IF Len(literal) = 0
             THEN Sub(k) \o (IF k > Len(s) THEN ""
                             ELSE Ch(s, k) \o ReplaceGlobalFrom(s, literal, repl, k + 1))
             ELSE SubSeq(s, from, k - 1) \o Sub(k)
                  \o ReplaceGlobalFrom(s, literal, repl, k + Len(literal))
  IN At(IndexFrom(s, literal, from))

\* s.replace(new RegExp(escapeRegex(literal), 'g'), repl)
ReplaceGlobal(s, literal, repl) == ReplaceGlobalFrom(s, literal, repl, 1)

\* position of the quote that closes /"([^"\\]*(\\.[^"\\]*)*)"/ when the
\* content starts at from: the first quote that an even number of
\* backslashes of the content precedes; 0 if there is none
StringEnd(line, from) ==
  LET BackslashesBefore(j) ==
        j - from - SkipBack(SubSeq(line, from, j - 1), j - from, {"\\"})
      Closes(j) == Ch(line, j) = "\"" /\ BackslashesBefore(j) % 2 = 0
  IN IF \E j \in from..Len(line) : Closes(j)
     THEN CHOOSE j \in from..Len(line) : Closes(j) /\ \A k \in from..(j - 1) : ~Closes(k)
     ELSE 0

RECURSIVE ReplaceQuotedStrings(_, _, _, _)
\* line.replace(quotedStringPattern, callback) from the position from on
ReplaceQuotedStrings(line, from, cleanOldText, newText) ==
  LET Piece(content, whole) ==
        IF Includes(content, cleanOldText)
        THEN "\"" \o ReplaceGlobal(content, cleanOldText, newText) \o "\""
        ELSE whole
      Span(i, j) ==
        IF j = 0
        THEN SubSeq(line, from, i) \o ReplaceQuotedStrings(line, i + 1, cleanOldText, newText)
        ELSE SubSeq(line, from, i - 1)
             \o Piece(SubSeq(line, i + 1, j - 1), SubSeq(line, i, j))
             \o ReplaceQuotedStrings(line, j + 1, cleanOldText, newText)
      Open(i) == IF i = 0 THEN SubSeq(line, from, Len(line)) ELSE Span(i, StringEnd(line, i + 1))
  IN Open(IndexFrom(line, "\"", from))

\* the first branch of the code, startsWith(' "'), tests a trimmed string for
\* a leading space and never holds
replaceJsonValue(line, oldText, newText) ==
  LET Clean(trimmed) ==
        IF StartsWith(trimmed, "\"") /\ EndsWith(trimmed, "\"")
        THEN SubSeq(trimmed, 2, Len(trimmed) - 1) ELSE trimmed
  IN ReplaceQuotedStrings(line, 1, Clean(Trim(oldText)), newText)

RECURSIVE ReplaceEntityQuoted(_, _, _, _, _)
\* line.replace(/(&quot;)([^&]*?)(&quot;)/g, callback)
ReplaceEntityQuoted(line, from, oldText, cleanOldText, newText) ==
  LET Piece(content, whole) ==
        IF Includes(content, cleanOldText) \/ whole = oldText
        THEN "&quot;" \o newText \o "&quot;"
        ELSE whole
      Span(i, amp) ==
        IF ~(amp # 0 /\ StartsAt(line, "&quot;", amp))
        THEN SubSeq(line, from, i)
             \o ReplaceEntityQuoted(line, i + 1, oldText, cleanOldText, newText)
        ELSE SubSeq(line, from, i - 1)
             \o Piece(SubSeq(line, i + 6, amp - 1), SubSeq(line, i, amp + 5))
             \o ReplaceEntityQuoted(line, amp + 6, oldText, cleanOldText, newText)
      Open(i) == IF i = 0 THEN SubSeq(line, from, Len(line))
                 ELSE Span(i, IndexFrom(line, "&", i + 6))
  IN Open(IndexFrom(line, "&quot;", from))

\* oldText.slice(6, -6) is empty when the two ends overlap
preserveEntityQuotesSimple(line, oldText, newText) ==
  ReplaceEntityQuoted(line, 1, oldText,
                      IF StartsWith(oldText, "&quot;") /\ EndsWith(oldText, "&quot;")
                      THEN SubSeq(oldText, 7, Len(oldText) - 6) ELSE oldText,
                      newText)

\* what one text span of the line does to result in replaceTextContent
PatchSpan(result, textContent, oldText, newText) ==
  IF Includes(textContent, oldText)
  THEN ReplaceFirst(result, textContent, ReplaceGlobal(textContent, oldText, newText))
  ELSE result

RECURSIVE PatchTextSpans(_, _, _, _, _)
\* the while loop over the matches of />([^<]*)</g in line
PatchTextSpans(line, from, result, oldText, newText) ==
  LET Go(next, j) ==
        IF Len(next) < 0 THEN "" ELSE PatchTextSpans(line, j + 1, next, oldText, newText)
      Close(i, j) ==
        IF i = 0 \/ j = 0 THEN result
        ELSE Go(PatchSpan(result, SubSeq(line, i + 1, j - 1), oldText, newText), j)
      Open(i) == Close(i, IF i = 0 THEN 0 ELSE IndexFrom(line, "<", i + 1))
  IN Open(IndexFrom(line, ">", from))

\* the position of the last < of the line
LastOpen(line) ==
  CHOOSE k \in 1..Len(line) : Ch(line, k) = "<" /\ NoneIn(line, k + 1, Len(line), "<")

replaceTextContent(line, oldText, newText) ==
  LET \* afterLastTag = line.match(/>([^<]*)$/)
      AfterLast(afterFirst, close) ==
        IF close = 0 THEN afterFirst
        ELSE PatchSpan(afterFirst, SubSeq(line, close + 1, Len(line)), oldText, newText)
      \* beforeFirstTag = line.match(/^([^<]*)</)
      BeforeFirst(spans) ==
        PatchSpan(spans, SubSeq(line, 1, IndexOf(line, "<") - 1), oldText, newText)
  IN IF Includes(line, ":") /\ (Includes(line, "\"") \/ Includes(line, "'"))
     THEN replaceJsonValue(line, oldText, newText)
     ELSE IF Includes(line, "&quot;")
     THEN preserveEntityQuotesSimple(line, oldText, newText)
     ELSE IF Includes(line, "<") /\ Includes(line, ">")
     THEN AfterLast(BeforeFirst(PatchTextSpans(line, 1, line, oldText, newText)),
                    IndexFrom(line, ">", LastOpen(line) + 1))
     ELSE ReplaceGlobal(line, oldText, newText)

-----------------------------------------------------------------------------
(* Sequences                                                               *)

\* the sequence seq with every entry computed, once
Strict(seq) == seq \o <<>>

\* the concatenation of the sequences seqs[lo], ..., seqs[hi]
RECURSIVE ConcatRange(_, _, _)
ConcatRange(seqs, lo, hi) ==
  IF lo > hi THEN <<>>
  ELSE IF lo = hi THEN seqs[lo]
       ELSE ConcatRange(seqs, lo, (lo + hi) \div 2) \o ConcatRange(seqs, ((lo + hi) \div 2) + 1, hi)

\* the indices of list in the order of list.sort((a, b) => key[b] - key[a]):
\* descending in key, equal keys in their original order
DescendingOrder(keys) ==
  LET Before(a, b) == keys[a] > keys[b] \/ (keys[a] = keys[b] /\ a < b)
  IN Strict([k \in 1..Len(keys) |->
               CHOOSE a \in 1..Len(keys) :
                 Cardinality({b \in 1..Len(keys) : Before(b, a)}) = k - 1])

\* list sorted descending in keys, where keys[i] is the key of list[i]
SortDescending(list, keys) ==
  LET Permute(idx) == Strict([k \in 1..Len(list) |-> list[idx[k]]])
  IN Permute(DescendingOrder(keys))

-----------------------------------------------------------------------------
(* The file system and the corpus scanner                                  *)

\* a file of the project, by its path relative to projectRoot
NoFile == [exists |-> FALSE, content |-> ""]
File(content) == [exists |-> TRUE, content |-> content]

\* path.join(projectRoot, dir) exists and is a directory ("" is projectRoot)
IsDirectory(fsys, dir) ==
  dir = "" \/ \E p \in DOMAIN fsys : fsys[p].exists /\ StartsWith(p, dir \o "/")

\* constructor: the first of possibleSourceDirs that is a directory
possibleSourceDirs == <<"src", "app", "pages", "components", "">>

SourceDirOf(fsys) ==
  possibleSourceDirs[CHOOSE i \in 1..Len(possibleSourceDirs) :
                       /\ IsDirectory(fsys, possibleSourceDirs[i])
                       /\ \A j \in 1..(i - 1) : ~IsDirectory(fsys, possibleSourceDirs[j])]

\* the extensions each entry of patterns accepts, in the order of the list
patterns ==
  << {"ts", "tsx", "js", "jsx"}, {"vue", "svelte"}, {"html", "htm"},
     {"md"}, {"mdx"}, {"json"}, {"faq.json"} >>

ignoredDirs == {"node_modules", "dist", "build", ".next"}

\* glob(patterns[k], {cwd: searchDir, ignore}) lists the file p
GlobLists(fsys, searchDir, k, p) ==
  LET Listed(rel, segments) ==
        /\ \E ext \in patterns[k] : EndsWith(rel, "." \o ext)
        /\ \A i \in 1..Len(segments) : ~StartsWith(segments[i], ".")
        /\ \A i \in 1..(Len(segments) - 1) : segments[i] \notin ignoredDirs
      Under(rel) == Listed(rel, SplitBy(rel, "/"))
  IN /\ fsys[p].exists
     /\ searchDir = "" \/ StartsWith(p, searchDir \o "/")
     /\ Under(IF searchDir = "" THEN p ELSE SubSeq(p, Len(searchDir) + 2, Len(p)))

\* searchDirs of findTextInSourceFiles
SearchDirs(srcDir) == IF srcDir # "" THEN <<srcDir, "">> ELSE <<srcDir>>

\* allFiles: one entry per search directory, pattern and listed file; order is
\* the order in which glob lists the files of a directory
AllFiles(fsys, srcDir, order) ==
  LET Globbed(dirs) ==
        ConcatRange([e \in 1..(Len(dirs) * Len(patterns)) |->
                       SelectSeq(order,
                                 LAMBDA p : GlobLists(fsys, dirs[((e - 1) \div Len(patterns)) + 1],
                                                      ((e - 1) % Len(patterns)) + 1, p))],
                    1, Len(dirs) * Len(patterns))
  IN Globbed(SearchDirs(srcDir))

\* the FileMatch pushed for line number i of the file and the variation
\* (updatedLine, matchedVariation and the context windows are diagnostics
\* that no decision reads and are left out)
FileMatchOf(path, i, line, variation) ==
  LET Of(normalizedLine) ==
        [ filePath |-> path,
          lineNumber |-> i,
          originalLine |-> line,
          matchedText |-> extractOriginalTextFromLine(line, variation, normalizedLine),
          isAttributeMatch |-> isAttributeMatch(normalizedLine, variation),
          isTextContentMatch |-> isTextContentMatch(normalizedLine, variation),
          isExactMatch |-> TRUE ]
  IN Of(cleanSearchText(line))

\* the matches one readFile of the file contributes, in line then variation order
MatchesInFile(path, content, searchVariations) ==
  LET n == Len(searchVariations)
      Over(lines) ==
        ConcatRange([e \in 1..(Len(lines) * n) |->
                       IF hasExactTextMatch(lines[((e - 1) \div n) + 1],
                                            searchVariations[((e - 1) % n) + 1])
                       THEN <<FileMatchOf(path, ((e - 1) \div n) + 1, lines[((e - 1) \div n) + 1],
                                          searchVariations[((e - 1) % n) + 1])>>
                       ELSE <<>>],
                    1, Len(lines) * n)
  IN Over(SplitLines(content))

\* what the loop over allFiles finds in each file when its read succeeds
FileMatches(fsys, originalText) ==
  LET Over(searchVariations) ==
        [p \in DOMAIN fsys |->
           IF fsys[p].exists THEN MatchesInFile(p, fsys[p].content, searchVariations)
           ELSE <<>>] @@ <<>>
  IN Over(extractDynamicPart(cleanSearchText(originalText)))

\* the matches pushed over allFiles; unreadable is the set of files whose
\* readFile fails during this scan, which the loop skips
CollectMatches(perFile, allFiles, unreadable) ==
  ConcatRange([i \in 1..Len(allFiles) |->
                 IF allFiles[i] \in unreadable THEN <<>> ELSE perFile[allFiles[i]]],
              1, Len(allFiles))

findTextInSourceFiles(fsys, srcDir, order, unreadable, originalText) ==
  CollectMatches(FileMatches(fsys, originalText), AllFiles(fsys, srcDir, order), unreadable)

-----------------------------------------------------------------------------
(* Page filter, validator, scorer and ranker                               *)

\* pageUrl.split('/').filter(Boolean)
UrlParts(pageUrl) == SelectSeq(SplitBy(pageUrl, "/"), LAMBDA part : part # "")

\* relevanceScore of filterByPageContext for the lower-cased path of a match
RelevanceScore(filePath, urlParts) ==
  (IF Includes(filePath, (IF Len(urlParts) > 0 THEN urlParts[Len(urlParts)] ELSE "index")
                         \o "/page.")
   THEN 100 ELSE 0)
  + (IF \E i \in 1..Len(urlParts) : Includes(filePath, ToLowerCase(urlParts[i]))
     THEN 50 ELSE 0)
  + (IF Includes(filePath, "/page.") \/ Includes(filePath, "page/") THEN 30 ELSE 0)
  + (IF Includes(filePath, "/components/") THEN 20 ELSE 0)
  + (IF Includes(filePath, "/layout.") THEN 10 ELSE 0)
  + (IF Includes(filePath, "nav") \/ Includes(filePath, "header")
        \/ Includes(filePath, "footer") THEN 5 ELSE 0)

pageFilterLimit == 10

filterByPageContext(list, pageUrl) ==
  LET Slice(sorted) == SubSeq(sorted, 1, Min(Len(sorted), pageFilterLimit))
      Sorted(urlParts) ==
        SortDescending(list, Strict([i \in 1..Len(list) |->
                                       RelevanceScore(ToLowerCase(list[i].filePath), urlParts)]))
  IN IF pageUrl = "" THEN list ELSE Slice(Sorted(UrlParts(pageUrl)))

\* getFileContent: the content, or '' when the read fails
getFileContent(fsys, unreadable, filePath) ==
  IF fsys[filePath].exists /\ filePath \notin unreadable
  THEN fsys[filePath].content ELSE ""

\* sibling.split(':')[1]?.split('[')[0]?.trim() of a sibling that includes ':'
SiblingTextPart(sibling) ==
  Trim(SplitBy(SplitBy(sibling, ":")[2], "[")[1])

siblingMinLength == 15

\* the siblings the loop counts in totalSiblings
CountedSiblings(siblingsAfter) ==
  {i \in 1..Len(siblingsAfter) :
     /\ Includes(siblingsAfter[i].text, ":")
     /\ Len(SiblingTextPart(siblingsAfter[i].text)) > siblingMinLength}

\* selector.match(/#[\w-]+|\.[\w-]+/g): the positions where a part starts
SelectorClass == WordChars \cup {"-"}

SelectorPartStarts(selector) ==
  {i \in 1..(Len(selector) - 1) :
     Ch(selector, i) \in {"#", "."} /\ Ch(selector, i + 1) \in SelectorClass}

\* part.substring(1) of the part that starts at position i
SelectorPartAt(selector, i) ==
  SubSeq(selector, i + 1, SkipWhile(selector, i + 1, SelectorClass) - 1)

selectorPartMinLength == 3
detailedSelectorLength == 20
shortTextLength == 10

\* pageUrl.replace(/^\//, '').replace(/\/$/, '')
PagePath(pageUrl) ==
  LET Tail1(a) == IF EndsWith(a, "/") THEN SubSeq(a, 1, Len(a) - 1) ELSE a
  IN Tail1(IF StartsWith(pageUrl, "/") THEN SubSeq(pageUrl, 2, Len(pageUrl)) ELSE pageUrl)

\* hasMinimalContext of validateExactContext
HasMinimalContext(context) ==
  /\ context.parentText # ""
  /\ Trim(cleanSearchText(context.parentText)) = Trim(cleanSearchText(context.originalText))

\* a threshold that does not depend on the context
MinRequiredScoreFixed(context, isUniqueText) == 2

\* minRequiredScore, in half points
MinRequiredScore(context, isUniqueText) ==
  IF context.elementId # "" \/ isUniqueText THEN 2
  ELSE IF Len(context.elementClasses) >= 3 THEN 2
  ELSE IF HasMinimalContext(context) THEN 6
  ELSE IF Len(Trim(context.originalText)) < shortTextLength THEN 4
  ELSE 2

\* validateExactContext without the points for the element id
NoElementIdBonus(context) == 0

\* hasElementId: validationScore += 2, in half points
ElementIdBonus(context) == IF context.elementId # "" THEN 4 ELSE 0

\* validationScore when no early return is taken, in half points
\* (the selector bonus is 0.5 per part, so every amount is doubled)
ValidationScore(fileContent, match, context, isUniqueText) ==
  LET Ratio(totalSiblings, siblingMatches) ==
        IF totalSiblings = 0 THEN 0
        ELSE IF 2 * siblingMatches >= totalSiblings THEN 4 * siblingMatches ELSE -2
      Siblings(counted, normalizedFileContent) ==
        Ratio(Cardinality(counted),
              Cardinality({i \in counted :
                Includes(normalizedFileContent,
                         cleanSearchText(SiblingTextPart(context.siblingsAfter[i].text)))}))
      Page(pageUrl, fileName) ==
        (IF pageUrl = "/"
            /\ (\/ Includes(fileName, "testimonials") \/ Includes(fileName, "obstacles")
                \/ Includes(fileName, "bausteine") \/ Includes(fileName, "hero")
                \/ ~Includes(fileName, "(light-bg)"))
         THEN 2 ELSE 0)
        + (IF pageUrl # "" /\ Includes(pageUrl, "/") /\ pageUrl # "/"
              /\ Includes(fileName, PagePath(pageUrl))
           THEN 4 ELSE 0)
      Selector(selector) ==
        Cardinality({i \in SelectorPartStarts(selector) :
          /\ Len(SelectorPartAt(selector, i)) > selectorPartMinLength
          /\ Includes(fileContent, SelectorPartAt(selector, i))})
      Minimal(hasMinimalContext) ==
        (IF context.parentText = "" THEN 0 ELSE IF hasMinimalContext THEN 2 ELSE 4)
        + (IF hasMinimalContext
           THEN (IF Len(context.cssSelector) > detailedSelectorLength THEN 2 ELSE -2)
           ELSE 0)
  IN Minimal(HasMinimalContext(context))
     + Siblings(CountedSiblings(context.siblingsAfter), cleanSearchText(fileContent))
     + Page(context.pageUrl, ToLowerCase(match.filePath))
     + Selector(context.cssSelector)
     + (IF isUniqueText THEN 6 ELSE 0)
     + ElementIdBonus(context)

\* the two early returns under if (context.surroundingContext?.parentText)
RejectedByParentText(fileContent, context) ==
  LET Rejected(originalTextNormalized) ==
        \/ ~Includes(cleanSearchText(context.parentText), originalTextNormalized)
        \/ ~Includes(cleanSearchText(fileContent), originalTextNormalized)
  IN context.parentText # "" /\ Rejected(cleanSearchText(context.originalText))

\* validateExactContext: threw when sibling.includes is applied to an entry of
\* siblingsAfter that is not a string
validateExactContext(fsys, unreadable, match, context, isUniqueText) ==
  LET Validate(fileContent) ==
        IF RejectedByParentText(fileContent, context)
        THEN [threw |-> FALSE, isValid |-> FALSE]
        ELSE IF \E i \in 1..Len(context.siblingsAfter) : ~context.siblingsAfter[i].isString
        THEN [threw |-> TRUE, isValid |-> FALSE]
        ELSE [threw |-> FALSE,
              isValid |-> ValidationScore(fileContent, match, context, isUniqueText)
                            >= MinRequiredScore(context, isUniqueText)]
  IN Validate(getFileContent(fsys, unreadable, match.filePath))

\* the score without the points for an exact match
ScoreWithoutExactBonus(match, context) == 3

\* score of scoreMatchesWithContext for a match that passed validation
ScoreOf(match, context) ==
  3
  + (IF context.elementId # "" \/ context.elementTag # ""
     THEN (IF EndsWith(match.filePath, ".tsx") \/ EndsWith(match.filePath, ".jsx") THEN 2
           ELSE IF Includes(match.filePath, ".map.json")
                   \/ Includes(match.filePath, "hero-page-element-id") THEN -1
           ELSE 0)
     ELSE 0)
  + (IF Includes(match.filePath, "/components/")
        \/ Includes(match.filePath, "\\components\\") THEN 1 ELSE 0)
  + (IF match.isExactMatch THEN 3 ELSE -1)
  + (IF match.isTextContentMatch /\ ~match.isAttributeMatch THEN 1 ELSE 0)

\* confidence in quarters: Math.min(score / 4.0, 1.0) is ConfidenceOf(score) / 4
confidenceScale == 4

\* the quotient without the Math.min
ConfidenceUnclamped(score) == score

ConfidenceOf(score) == Min(score, confidenceScale)

\* the ScoredMatch pushed for a match that passed validation
ScoredMatchOf(match, context) ==
  LET With(score) ==
        [ filePath |-> match.filePath,
          lineNumber |-> match.lineNumber,
          originalLine |-> match.originalLine,
          matchedText |-> match.matchedText,
          isAttributeMatch |-> match.isAttributeMatch,
          isTextContentMatch |-> match.isTextContentMatch,
          isExactMatch |-> match.isExactMatch,
          score |-> score,
          confidence |-> ConfidenceOf(score) ]
  IN With(ScoreOf(match, context))

\* isUniqueText = matches.length === 1
IsUniqueText(list) == Len(list) = 1

\* scoreMatchesWithContext: threw when a validation throws, else the valid
\* matches sorted by confidence, highest first
scoreMatchesWithContext(fsys, unreadable, list, context) ==
  LET Rank(validMatches) ==
        SortDescending(validMatches,
                       Strict([k \in 1..Len(validMatches) |-> validMatches[k].confidence]))
      Push(validation) ==
        ConcatRange([i \in 1..Len(list) |->
                       IF validation[i].isValid THEN <<ScoredMatchOf(list[i], context)>>
                       ELSE <<>>],
                    1, Len(list))
      Outcome(validation) ==
        IF \E i \in 1..Len(list) : validation[i].threw
        THEN [threw |-> TRUE, list |-> <<>>]
        ELSE [threw |-> FALSE, list |-> Rank(Push(validation))]
  IN Outcome(Strict([i \in 1..Len(list) |->
                       validateExactContext(fsys, unreadable, list[i], context,
                                            IsUniqueText(list))]))

\* the null of findBestMatch, and a found match
NoMatch == [found |-> FALSE]
BestOf(m) == [found |-> TRUE, match |-> m]

\* m.confidence > 0.5, in quarters
highConfidence == 2

\* a ranker without buckets: the head of the list
findHeadMatch(scoredMatches) ==
  IF Len(scoredMatches) = 0 THEN NoMatch ELSE BestOf(scoredMatches[1])

\* findBestMatch
findBestMatch(scoredMatches) ==
  LET FirstOf(filtered, otherwise) ==
        IF Len(filtered) > 0 THEN BestOf(filtered[1]) ELSE otherwise
      HighOf(highConfidenceMatches) ==
        IF Len(highConfidenceMatches) > 1 THEN BestOf(highConfidenceMatches[1])
        ELSE BestOf(scoredMatches[1])
  IN IF Len(scoredMatches) = 0 THEN NoMatch
     ELSE
       FirstOf(SelectSeq(scoredMatches, LAMBDA m : m.isTextContentMatch /\ ~m.isAttributeMatch),
       FirstOf(SelectSeq(scoredMatches,
                         LAMBDA m : /\ m.isTextContentMatch /\ m.isAttributeMatch
                                    /\ \E attr \in contentAttributes :
                                         Includes(ToLowerCase(m.originalLine),
                                                  ToLowerCase(attr))),
       FirstOf(SelectSeq(scoredMatches, LAMBDA m : m.isTextContentMatch /\ m.isAttributeMatch),
       HighOf(SelectSeq(scoredMatches, LAMBDA m : m.confidence > highConfidence)))))

-----------------------------------------------------------------------------
(* The patcher's line rewrite                                              *)

\* updateSourceFile without its test of the line number
LineExistsAlways(lineNumber, lines) == TRUE

\* lineNumber <= lines.length of updateSourceFile
LineExists(lineNumber, lines) == lineNumber <= Len(lines)

\* updatedLine of updateSourceFile
UpdatedLine(originalLine, matchedText, newText) ==
  LET Fallback(replaced) ==
        IF replaced = originalLine
        THEN ReplaceFirst(originalLine, matchedText, newText)
        ELSE replaced
  IN Fallback(replaceTextContent(originalLine, matchedText, newText))

\* updatedContent of updateSourceFile for a file that has the line
UpdatedContent(content, match, newText) ==
  LET Rewrite(lines) ==
        JoinLines([lines EXCEPT ![match.lineNumber] =
                     UpdatedLine(lines[match.lineNumber], match.matchedText, newText)])
  IN Rewrite(SplitLines(content))

\* lines[lineNumber - 1]: undefined when the array has no such index
LineAt(lines, lineNumber) ==
  IF lineNumber \in 1..Len(lines) THEN Found(lines[lineNumber]) ELSE NotFound

-----------------------------------------------------------------------------
(* Requests, corpora and results                                           *)

\* the files of the modelled project, relative to projectRoot
Paths == {"home.tsx", "src/home.tsx", "about.tsx"}

Corpus(home, srcHome, about) ==
  [p \in Paths |-> IF p = "home.tsx" THEN home
                   ELSE IF p = "src/home.tsx" THEN srcHome ELSE about]

HomeContent == "<main>\n<h1>Welcome</h1>"
AboutContent == "<p>Welcome</p>\n<p>Bye</p>"

CorpusRoot == Corpus(File(HomeContent), NoFile, NoFile)
CorpusSrc == Corpus(NoFile, File(HomeContent), NoFile)
CorpusDup == Corpus(File(HomeContent), NoFile, File(AboutContent))

Corpora == {CorpusRoot, CorpusSrc, CorpusDup}

\* the orders in which glob may list the files
GlobOrders ==
  {o \in [1..Cardinality(Paths) -> Paths] : \A i, j \in DOMAIN o : o[i] = o[j] => i = j}

\* an entry of siblingsAfter is [isString |-> TRUE, text |-> the string], or
\* a value of another type
NotAString == [isString |-> FALSE, text |-> ""]

\* the EditContext of a request; "" stands for an absent optional field
EditContext(originalText, newText, elementId, parentText, siblingsAfter, pageUrl) ==
  [ originalText |-> originalText,
    newText |-> newText,
    elementTag |-> "h1",
    elementClasses |-> <<>>,
    elementId |-> elementId,
    cssSelector |-> "h1",
    parentText |-> parentText,
    siblingsAfter |-> siblingsAfter,
    pageUrl |-> pageUrl ]

\* the requests of the model: every combination of new text, element id and
\* parent text for the text that the corpora hold, a sibling that is not a
\* string, a page other than the home page, and a text that no file holds
Requests ==
  { EditContext("Welcome", n, id, parent, <<>>, "/") :
      n \in {"Hello", "Hello.", "Hi\nyou"},
      id \in {"", "hero"},
      parent \in {"", "Welcome", "Say Welcome here", "Other"} }
  \cup { EditContext("Welcome", "Hello", id, "", <<NotAString>>, "/") : id \in {"", "hero"} }
  \cup { EditContext("Welcome", "Hello", id, "", <<>>, "/about") : id \in {"", "hero"} }
  \cup { EditContext("Goodbye", "Hello", "", "", <<>>, "/") }

NoRequest == EditContext("", "", "", "", <<>>, "")

\* testEditContext of the debug route: newText is originalText, the element
\* is a span, there is no surroundingContext, and pageUrl defaults to /
DebugContext(originalText, pageUrl) ==
  [EditContext(originalText, originalText, "", "", <<>>,
               IF pageUrl = "" THEN "/" ELSE pageUrl)
     EXCEPT !.elementTag = "span", !.cssSelector = "span"]

\* the bodies posted to the debug route: a text the corpora hold and one they
\* do not, with and without a pageUrl
DebugRequests ==
  { DebugContext(t, u) : t \in {"Welcome", "Goodbye"}, u \in {"", "/about"} }

\* a ProcessResult; confidence is in quarters, "" and 0 stand for absent fields
Result(success, confidence, matchedFilePath, lineNumber, hasConflicts, errorMessage) ==
  [ kind |-> "returned",
    success |-> success,
    confidence |-> confidence,
    matchedFilePath |-> matchedFilePath,
    lineNumber |-> lineNumber,
    hasConflicts |-> hasConflicts,
    errorMessage |-> errorMessage ]

NoResult == [Result(FALSE, 0, "", 0, FALSE, "") EXCEPT !.kind = "none"]

\* processTextEdit without its catch block: the error reaches the caller
Rethrown(message) == [Result(FALSE, 0, "", 0, FALSE, message) EXCEPT !.kind = "thrown"]

\* the catch block of processTextEdit
CaughtResult(message) == Result(FALSE, 0, "", 0, FALSE, message)

\* the acceptance threshold bestMatch.confidence < 0.5, in quarters
acceptanceThreshold == 2

\* error.message of the errors the calls can raise
SiblingTypeError == "sibling.includes is not a function"
LineTypeError == "Cannot read properties of undefined (reading 'includes')"
ReadError == "EIO: i/o error, read"
WriteError == "EIO: i/o error, write"
NoSuchFile == "ENOENT: no such file or directory, open"
StaleMessage(lineNumber) == "Line number " \o ToString(lineNumber) \o " exceeds file length"

-----------------------------------------------------------------------------
(* Bounds                                                                  *)

\* reads and writes that fail during one call
MaxFaults == 1
\* changes other writers make to the files during one call
MaxEnvSteps == 1
\* pieces an input of the normalizer is put together from
MaxPieces == 3

\* the sets of files whose read may fail in one step
FaultSets(fsys, used) ==
  {u \in SUBSET {p \in Paths : fsys[p].exists} : Cardinality(u) <= MaxFaults - used}

\* the line harness before a line is given to it
LabIdle == [stage |-> "idle", line |-> "", req |-> NoRequest, best |-> NoMatch,
            patched |-> "", list |-> <<>>]

\* no edit has been handed to applyEdit yet
NoOutcome == [id |-> 0, success |-> FALSE, isDryRun |-> FALSE]

\* the apply-edits script before it is run
JobIdle == [stage |-> "idle", variant |-> "", isDryRun |-> FALSE, table |-> <<>>,
            before |-> <<>>, fs |-> CorpusRoot, beforeFs |-> CorpusRoot,
            queue |-> <<>>, done |-> 0, run |-> 0, updates |-> 0, fileWrites |-> 0,
            last |-> NoOutcome]

BenchIdle == [stage |-> "idle", context |-> NoRequest, list |-> <<>>, verdicts |-> <<>>,
              scored |-> <<>>, best |-> NoMatch, unique |-> FALSE,
              corpus |-> CorpusRoot, after |-> CorpusRoot, result |-> NoResult]
TwinIdle == [stage |-> "idle", request |-> NoRequest, fs |-> CorpusRoot, status |-> "",
             route |-> "idle", script |-> "idle", result |-> NoResult, runs |-> 0,
             writes |-> 0]
NzIdle == [stage |-> "idle", input |-> "", once |-> "", twice |-> ""]
BqIdle == [stage |-> "idle", context |-> NoRequest, corpus |-> CorpusRoot,
           path |-> "", lineNumber |-> 0, unique |-> 0, duplicated |-> 0]

-----------------------------------------------------------------------------
(* One call of processTextEdit over a file system that other writers share *)

Init ==
  /\ fs \in Corpora
  /\ fs0 = fs
  /\ pc = "idle"
  /\ req = NoRequest
  /\ sourceDir = ""
  /\ matches = <<>>
  /\ scored = <<>>
  /\ best = NoMatch
  /\ pending = ""
  /\ processResult = NoResult
  /\ writes = <<>>
  /\ envSteps = 0
  /\ faults = 0
  /\ research = {}
  /\ nz = NzIdle
  /\ bq = BqIdle
  /\ gone = {}
  /\ duo = [stage |-> "idle", fs |-> CorpusRoot, calls |-> <<>>]
  /\ api = [stage |-> "idle", nodeEnv |-> "", version |-> "", token |-> <<>>,
            github |-> FALSE, fs |-> CorpusRoot, edits |-> <<>>, syncs |-> {},
            processed |-> 0, writes |-> 0]
  /\ job = JobIdle
  /\ lab = LabIdle
  /\ bench = BenchIdle
  /\ twin = TwinIdle

\* the route builds a TextProcessor and calls processTextEdit with the request
Start(r) ==
  /\ pc = "idle"
  /\ req' = r
  /\ sourceDir' = SourceDirOf(fs)
  /\ fs0' = fs
  /\ pc' = "scan"
  /\ UNCHANGED <<fs, matches, scored, best, pending, processResult, writes, envSteps,
                 faults, research, nz, bq, gone, laterVars>>

\* allMatches = await findTextInSourceFiles(originalText), and the empty case
Scan ==
  /\ pc = "scan"
  /\ \E perFile \in {FileMatches(fs, req.originalText)} :
       \E order \in GlobOrders, unreadable \in FaultSets(fs, faults) :
         \E allMatches \in {CollectMatches(perFile, AllFiles(fs, sourceDir, order),
                                           unreadable)} :
           /\ matches' = allMatches
           /\ faults' = faults + Cardinality(unreadable)
           /\ IF Len(allMatches) = 0
              THEN /\ processResult' = Result(FALSE, 0, "", 0, FALSE, "No matches found")
                   /\ pc' = "done"
              ELSE /\ processResult' = processResult
                   /\ pc' = "score"
  /\ UNCHANGED <<fs, req, sourceDir, scored, best, pending, fs0, writes, envSteps,
                 research, nz, bq, gone, laterVars>>

\* filterByPageContext, scoreMatchesWithContext, findBestMatch and the
\* acceptance test; a TypeError of the validation reaches the catch block
Score ==
  /\ pc = "score"
  /\ \E unreadable \in FaultSets(fs, faults) :
       \E outcome \in {scoreMatchesWithContext(fs, unreadable,
                                               filterByPageContext(matches, req.pageUrl),
                                               req)} :
         \E bestMatch \in {findBestMatch(outcome.list)} :
           /\ faults' = faults + Cardinality(unreadable)
           /\ IF outcome.threw
              THEN /\ scored' = <<>>
                   /\ best' = NoMatch
                   /\ processResult' = CaughtResult(SiblingTypeError)
                   /\ pc' = "done"
              ELSE /\ scored' = outcome.list
                   /\ best' = bestMatch
                   /\ IF ~bestMatch.found
                      THEN /\ processResult' =
                                Result(FALSE, 0, "", 0, Len(outcome.list) > 1,
                                       "No matches found")
                           /\ pc' = "done"
                      ELSE IF bestMatch.match.confidence < acceptanceThreshold
                      THEN /\ processResult' =
                                Result(FALSE, bestMatch.match.confidence, "", 0,
                                       Len(outcome.list) > 1, "Low confidence match")
                           /\ pc' = "done"
                      ELSE /\ processResult' = processResult
                           /\ pc' = "patchRead"
  /\ UNCHANGED <<fs, req, sourceDir, matches, pending, fs0, writes, envSteps,
                 research, nz, bq, gone, laterVars>>

\* the failure branch of processTextEdit after updateSourceFile
UpdateFailed(message) ==
  Result(FALSE, best.match.confidence, "", 0, FALSE, message)

\* updateSourceFile up to the call of writeFile: the read, the line check and
\* the rewritten content; readFile of a file that is no longer there rejects,
\* reading an index the array lacks gives undefined, and updateSourceFile
\* catches both errors
PatchRead ==
  /\ pc = "patchRead"
  /\ \E lines \in {SplitLines(fs[best.match.filePath].content)} :
       IF ~fs[best.match.filePath].exists
       THEN /\ processResult' = UpdateFailed(NoSuchFile)
            /\ pending' = pending
            /\ pc' = "done"
       ELSE IF ~LineExists(best.match.lineNumber, lines)
       THEN /\ processResult' = UpdateFailed(StaleMessage(best.match.lineNumber))
            /\ pending' = pending
            /\ pc' = "done"
       ELSE IF ~LineAt(lines, best.match.lineNumber).found
       THEN /\ processResult' = UpdateFailed(LineTypeError)
            /\ pending' = pending
            /\ pc' = "done"
       ELSE /\ pending' = UpdatedContent(fs[best.match.filePath].content, best.match,
                                         req.newText)
            /\ processResult' = processResult
            /\ pc' = "patchWrite"
  /\ UNCHANGED <<fs, req, sourceDir, matches, scored, best, fs0, writes, envSteps,
                 faults, research, nz, bq, gone, laterVars>>

\* the readFile of updateSourceFile fails
PatchReadFails ==
  /\ pc = "patchRead"
  /\ faults < MaxFaults
  /\ faults' = faults + 1
  /\ processResult' = UpdateFailed(ReadError)
  /\ pc' = "done"
  /\ UNCHANGED <<fs, req, sourceDir, matches, scored, best, pending, fs0, writes,
                 envSteps, research, nz, bq, gone, laterVars>>

\* fs.writeFile succeeds and processTextEdit reports the edit
PatchWrite ==
  /\ pc = "patchWrite"
  /\ fs' = [fs EXCEPT ![best.match.filePath] = File(pending)]
  /\ writes' = Append(writes, best.match.filePath)
  /\ processResult' = Result(TRUE, best.match.confidence, best.match.filePath,
                             best.match.lineNumber, FALSE, "")
  /\ pc' = "done"
  /\ UNCHANGED <<req, sourceDir, matches, scored, best, pending, fs0, envSteps,
                 faults, research, nz, bq, gone, laterVars>>

\* what a writeFile that fails can leave of the content it was writing:
\* writeFile opens the file with truncation and then writes in chunks
PartialContents(content) == {"", SubSeq(content, 1, Len(content) \div 2)}

\* fs.writeFile fails: before the file is opened, or after it was truncated
PatchWriteFails ==
  /\ pc = "patchWrite"
  /\ faults < MaxFaults
  /\ \E left \in {fs[best.match.filePath]} \cup {File(c) : c \in PartialContents(pending)} :
       /\ fs' = [fs EXCEPT ![best.match.filePath] = left]
       /\ writes' = IF left = fs[best.match.filePath] THEN writes
                    ELSE Append(writes, best.match.filePath)
  /\ faults' = faults + 1
  /\ processResult' = UpdateFailed(WriteError)
  /\ pc' = "done"
  /\ UNCHANGED <<req, sourceDir, matches, scored, best, pending, fs0, envSteps,
                 research, nz, bq, gone, laterVars>>

\* the file and line of every match of a search
Locations(found) == {<<found[i].filePath, found[i].lineNumber>> : i \in 1..Len(found)}

\* after a successful call that nothing disturbed: a new search of the same
\* corpus for newText
ReSearch ==
  /\ pc = "done"
  /\ processResult.success
  /\ faults = 0
  /\ envSteps = 0
  /\ \E perFile \in {FileMatches(fs, req.newText)} :
       \E order \in GlobOrders :
         research' = Locations(CollectMatches(perFile, AllFiles(fs, SourceDirOf(fs), order),
                                              {}))
  /\ pc' = "researched"
  /\ UNCHANGED <<fs, req, sourceDir, matches, scored, best, pending, processResult,
                 fs0, writes, envSteps, faults, nz, bq, gone, laterVars>>

\* another writer removes the last line of a file while the call is between
\* its scan and its write
EnvShrink(p) ==
  /\ pc \in {"score", "patchRead", "patchWrite"}
  /\ envSteps < MaxEnvSteps
  /\ fs[p].exists
  /\ \E lines \in {SplitLines(fs[p].content)} :
       /\ Len(lines) >= 2
       /\ fs' = [fs EXCEPT ![p] = File(JoinLines(SubSeq(lines, 1, Len(lines) - 1)))]
  /\ envSteps' = envSteps + 1
  /\ UNCHANGED <<pc, req, sourceDir, matches, scored, best, pending, processResult,
                 fs0, writes, faults, research, nz, bq, gone, laterVars>>

\* another actor removes a file while the call is between its scan and its
\* write
EnvRemove(p) ==
  /\ pc \in {"score", "patchRead", "patchWrite"}
  /\ envSteps < MaxEnvSteps
  /\ fs[p].exists
  /\ fs' = [fs EXCEPT ![p] = NoFile]
  /\ gone' = gone \cup {p}
  /\ envSteps' = envSteps + 1
  /\ UNCHANGED <<pc, req, sourceDir, matches, scored, best, pending, processResult,
                 fs0, writes, faults, research, nz, bq, laterVars>>

\* another writer replaces the requested text in a file while the call is
\* between its scan and its write; the file keeps its lines
EnvRewrite(p) ==
  /\ pc \in {"score", "patchRead", "patchWrite"}
  /\ envSteps < MaxEnvSteps
  /\ fs[p].exists
  /\ Includes(fs[p].content, req.originalText)
  /\ fs' = [fs EXCEPT ![p] = File(ReplaceAllLit(fs[p].content, req.originalText,
                                                "Greetings"))]
  /\ envSteps' = envSteps + 1
  /\ UNCHANGED <<pc, req, sourceDir, matches, scored, best, pending, processResult,
                 fs0, writes, faults, research, nz, bq, gone, laterVars>>

Next ==
  \/ \E r \in Requests \cup DebugRequests : Start(r)
  \/ Scan
  \/ Score
  \/ PatchRead
  \/ PatchReadFails
  \/ PatchWrite
  \/ PatchWriteFails
  \/ ReSearch
  \/ \E p \in Paths : EnvShrink(p)
  \/ \E p \in Paths : EnvRemove(p)
  \/ \E p \in Paths : EnvRewrite(p)

Spec == Init /\ [][Next]_vars

-----------------------------------------------------------------------------
(* The normalizer applied twice to inputs put together from pieces         *)

\* the pieces: a letter, a period, the two quotes, a space, an escaped
\* ampersand and the rest of an entity name
Pieces == {"a", ".", "\"", "'", " ", "&amp;", "quot;"}

\* the strings of at most k pieces
RECURSIVE PieceStrings(_)
PieceStrings(k) ==
  IF k = 0 THEN {""}
  ELSE LET Extend(shorter) == shorter \cup {s \o p : s \in shorter, p \in Pieces}
       IN Extend(PieceStrings(k - 1))

NormalizeStart(s) ==
  /\ nz.stage = "idle"
  /\ pc = "idle"
  /\ nz' = [NzIdle EXCEPT !.stage = "input", !.input = s]
  /\ UNCHANGED <<engineVars, bq, laterVars>>

NormalizeOnce ==
  /\ nz.stage = "input"
  /\ nz' = [nz EXCEPT !.stage = "once", !.once = cleanSearchText(nz.input)]
  /\ UNCHANGED <<engineVars, bq, laterVars>>

NormalizeTwice ==
  /\ nz.stage = "once"
  /\ nz' = [nz EXCEPT !.stage = "twice", !.twice = cleanSearchText(nz.once)]
  /\ UNCHANGED <<engineVars, bq, laterVars>>

NextNorm ==
  \/ \E s \in PieceStrings(MaxPieces) : NormalizeStart(s)
  \/ NormalizeOnce
  \/ NormalizeTwice

SpecNorm == Init /\ [][NextNorm]_vars

-----------------------------------------------------------------------------
(* The confidence of one candidate before and after its line is copied     *)
(* into a second file                                                      *)

\* the lines of the corpus that include the text, as file and line number
Occurrences(fsys, text) ==
  UNION {{<<p, i>> : i \in {i \in 1..Len(SplitLines(fsys[p].content)) :
                              Includes(SplitLines(fsys[p].content)[i], text)}} :
         p \in {q \in Paths : fsys[q].exists}}

\* the confidence scoreMatchesWithContext gives the candidate at the file and
\* line; 0 when a validation throws or the candidate is not among the valid
\* ones, as the failure results of processTextEdit report
CandidateConfidence(fsys, order, context, path, lineNumber) ==
  LET At(list) ==
        IF \E i \in 1..Len(list) : list[i].filePath = path /\ list[i].lineNumber = lineNumber
        THEN list[CHOOSE i \in 1..Len(list) :
                    list[i].filePath = path /\ list[i].lineNumber = lineNumber].confidence
        ELSE 0
      Of(outcome) == IF outcome.threw THEN 0 ELSE At(outcome.list)
  IN Of(scoreMatchesWithContext(
          fsys, {},
          filterByPageContext(
            findTextInSourceFiles(fsys, SourceDirOf(fsys), order, {}, context.originalText),
            context.pageUrl),
          context))

\* the corpus after the line is copied into a file that did not exist
Duplicated(fsys, path, lineNumber) ==
  [fsys EXCEPT !["about.tsx"] = File(SplitLines(fsys[path].content)[lineNumber])]

BoostScoreUnique(r) ==
  /\ bq.stage = "idle"
  /\ pc = "idle"
  /\ ~fs["about.tsx"].exists
  /\ \E at \in {Occurrences(fs, r.originalText)} :
       /\ Cardinality(at) = 1
       /\ \E where \in at, order \in GlobOrders :
            bq' = [stage |-> "unique", context |-> r, corpus |-> fs,
                   path |-> where[1], lineNumber |-> where[2],
                   unique |-> CandidateConfidence(fs, order, r, where[1], where[2]),
                   duplicated |-> 0]
  /\ UNCHANGED <<engineVars, nz, laterVars>>

BoostDuplicate ==
  /\ bq.stage = "unique"
  /\ bq' = [bq EXCEPT !.stage = "copied",
                      !.corpus = Duplicated(bq.corpus, bq.path, bq.lineNumber)]
  /\ UNCHANGED <<engineVars, nz, laterVars>>

BoostScoreDuplicated ==
  /\ bq.stage = "copied"
  /\ \E order \in GlobOrders :
       bq' = [bq EXCEPT !.stage = "scored",
                        !.duplicated = CandidateConfidence(bq.corpus, order, bq.context,
                                                           bq.path, bq.lineNumber)]
  /\ UNCHANGED <<engineVars, nz, laterVars>>

NextBoost ==
  \/ \E r \in Requests : BoostScoreUnique(r)
  \/ BoostDuplicate
  \/ BoostScoreDuplicated

SpecBoost == Init /\ [][NextBoost]_vars

-----------------------------------------------------------------------------
(* Properties                                                              *)

\* processTextEdit has given its result to the caller
Done == pc \in {"done", "researched"}

\* the call ran with no failing read or write and no other writer
Undisturbed == faults = 0 /\ envSteps = 0

\* C1: every ProcessResult that processTextEdit returns has a confidence
\* between 0 and 1 (0 and 4 quarters), and a result with success = true has a
\* confidence of at least 0.5 (2 quarters)
ConfidenceInRange ==
  processResult.kind = "returned" =>
    /\ processResult.confidence \in 0..confidenceScale
    /\ processResult.success => processResult.confidence >= acceptanceThreshold

\* a success whose score was above 4 and whose confidence was clamped to 1
ConfidenceClamped ==
  /\ pc = "done"
  /\ processResult.success
  /\ best.match.score > confidenceScale
  /\ processResult.confidence = confidenceScale

\* the lines before and after differ at most at line n
OnlyLineChanged(before, after, n) ==
  /\ Len(before) = Len(after)
  /\ \A i \in 1..Len(before) : i # n => before[i] = after[i]

\* C2: after a call that returned success = true (and that no other writer
\* disturbed), only the file reported as matchedFilePath differs from its
\* content before the call, and in that file every line other than the
\* reported lineNumber is the same as before
OneLineOfOneFile ==
  (Done /\ processResult.success /\ envSteps = 0) =>
    \A p \in Paths :
      IF p = processResult.matchedFilePath
      THEN OnlyLineChanged(SplitLines(fs0[p].content), SplitLines(fs[p].content),
                           processResult.lineNumber)
      ELSE fs[p] = fs0[p]

\* C3: whenever processTextEdit returned success = false (and no other writer
\* changed a file), every file has the content it had before the call
FailureLeavesFiles ==
  (Done /\ ~processResult.success /\ envSteps = 0) => fs = fs0

\* the patch step is about to read a target that has fewer lines than the
\* line number of the selected candidate
StaleTarget ==
  /\ pc = "patchRead"
  /\ fs[best.match.filePath].exists
  /\ Len(SplitLines(fs[best.match.filePath].content)) < best.match.lineNumber

\* C4: when the patch step reads a target file that has fewer lines than the
\* candidate's line number, the step writes nothing, leaves every file as it
\* is, and processTextEdit returns success = false with the error message
\* that names the line number
StaleTargetFails ==
  [][(StaleTarget /\ pc' # pc /\ faults' = faults) =>
       /\ pc' = "done"
       /\ ~processResult'.success
       /\ processResult'.errorMessage = StaleMessage(best.match.lineNumber)
       /\ fs' = fs
       /\ writes' = writes]_vars

\* a call that ended with the stale line message after another writer
\* shortened the target file
StaleTargetReported ==
  /\ pc = "done"
  /\ best.found
  /\ envSteps > 0
  /\ Len(SplitLines(fs[best.match.filePath].content)) < best.match.lineNumber
  /\ processResult.errorMessage = StaleMessage(best.match.lineNumber)
  /\ writes = <<>>

\* C5: processTextEdit never throws: every call ends with a returned
\* ProcessResult, and a result with success = false carries an errorMessage
NeverThrows ==
  Done =>
    /\ processResult.kind = "returned"
    /\ ~processResult.success => processResult.errorMessage # ""

\* a call in which the validation raised a TypeError, or a read or write
\* failed, and that ended with a failure result
ErrorReturned ==
  /\ pc = "done"
  /\ processResult.kind = "returned"
  /\ ~processResult.success
  /\ processResult.errorMessage \in {SiblingTypeError, ReadError, WriteError}

\* C6: the normalizer is idempotent: cleanSearchText applied to its own
\* result gives that result
NormalizerIdempotent ==
  nz.stage = "twice" => nz.twice = nz.once

\* C7: after a call that returned success = true with matchedFilePath f and
\* lineNumber n, a search of the same corpus for newText has a match at file
\* f, line n
RoundTrip ==
  pc = "researched" =>
    <<processResult.matchedFilePath, processResult.lineNumber>> \in research

\* C8: whenever two or more candidates, at different places of the corpus,
\* passed validation in a call, the returned ProcessResult has
\* hasConflicts = true
ConflictsReported ==
  (Done /\ Cardinality(Locations(scored)) >= 2) => processResult.hasConflicts

\* C9: the confidence of a candidate whose text occurs on one line of one
\* file is strictly higher than the confidence of the same candidate for the
\* same request after the line was copied into a second file
UniquenessBoost ==
  bq.stage = "scored" => bq.unique > bq.duplicated

\* the request of the Welcome scenario
WelcomeRequest == EditContext("Welcome", "Hello", "", "Welcome", <<>>, "/")

\* C10: when Welcome occurs only in home.tsx on the line <h1>Welcome</h1>,
\* at the project root or under src/, and the request has no element id, no
\* siblings, parentText Welcome and newText Hello, processTextEdit returns
\* success = true with matchedFilePath home.tsx and the line becomes
\* <h1>Hello</h1>
WelcomeScenario ==
  (Done /\ Undisturbed /\ req = WelcomeRequest /\ fs0 \in {CorpusRoot, CorpusSrc}) =>
    /\ processResult.success
    /\ EndsWith(processResult.matchedFilePath, "home.tsx")
    /\ SplitLines(fs[processResult.matchedFilePath].content)[processResult.lineNumber]
         = "<h1>Hello</h1>"

-----------------------------------------------------------------------------
(* One call of processTextEdit that nothing disturbs, as a function of the *)
(* files and the request                                                   *)

\* processTextEdit up to the acceptance test, every read succeeding: whether
\* the validation threw, the number of scored matches and the best match
SelectedMatch(fsys, order, r) ==
  LET Pick(outcome) ==
        IF outcome.threw THEN [threw |-> TRUE, count |-> 0, best |-> NoMatch]
        ELSE [threw |-> FALSE, count |-> Len(outcome.list),
              best |-> findBestMatch(outcome.list)]
  IN Pick(scoreMatchesWithContext(
            fsys, {},
            filterByPageContext(
              findTextInSourceFiles(fsys, SourceDirOf(fsys), order, {}, r.originalText),
              r.pageUrl),
            r))

\* !(!bestMatch || bestMatch.confidence < 0.5)
Accepted(selected) ==
  /\ ~selected.threw
  /\ selected.best.found
  /\ selected.best.match.confidence >= acceptanceThreshold

\* one order of GlobOrders for every order in which glob may list the files
\* that exist
ListingOrders(fsys) ==
  LET Listed(order) == SelectSeq(order, LAMBDA p : fsys[p].exists)
  IN {CHOOSE order \in GlobOrders : Listed(order) = listing :
        listing \in {Listed(order) : order \in GlobOrders}}

\* processTextEdit when no read or write fails and nobody else writes: the
\* ProcessResult and the files after the call
processTextEditAlone(fsys, order, r) ==
  LET Patch(m, content) ==
        IF LineExists(m.lineNumber, SplitLines(content))
        THEN [result |-> Result(TRUE, m.confidence, m.filePath, m.lineNumber, FALSE, ""),
              fs |-> [fsys EXCEPT ![m.filePath] = File(UpdatedContent(content, m, r.newText))]]
        ELSE [result |-> Result(FALSE, m.confidence, "", 0, FALSE, StaleMessage(m.lineNumber)),
              fs |-> fsys]
      Decide(selected) ==
        IF selected.threw
        THEN [result |-> CaughtResult(SiblingTypeError), fs |-> fsys]
        ELSE IF ~selected.best.found
        THEN [result |-> Result(FALSE, 0, "", 0, selected.count > 1, "No matches found"),
              fs |-> fsys]
        ELSE IF ~Accepted(selected)
        THEN [result |-> Result(FALSE, selected.best.match.confidence, "", 0,
                                selected.count > 1, "Low confidence match"),
              fs |-> fsys]
        ELSE Patch(selected.best.match, fsys[selected.best.match.filePath].content)
  IN Decide(SelectedMatch(fsys, order, r))

-----------------------------------------------------------------------------
(* Two calls of processTextEdit in one process.  The route builds one      *)
(* TextProcessor per request and awaits processTextEdit; the event loop    *)
(* runs another request at every await, so the steps of two calls          *)
(* interleave at the search, at the readFile and at the writeFile of       *)
(* updateSourceFile.                                                       *)

\* the requests of the two calls: the heading, for either page, and the
\* paragraph of about.tsx
DuoRequests ==
  { EditContext("Welcome", "Hello", "hero", "", <<>>, u) : u \in {"/", "/about"} }
  \cup { EditContext("Bye", "Ciao", "", "", <<>>, "/about") }

\* the position of one call: its request, the candidate it selected, the
\* content it is about to write and whether it returned success = true
DuoCall(r, at, match, content, success) ==
  [req |-> r, pc |-> at, best |-> match, pending |-> content, success |-> success]

\* both requests arrive
DuoStart(r1, r2) ==
  /\ duo.stage = "idle"
  /\ pc = "idle"
  /\ duo' = [stage |-> "running", fs |-> fs,
             calls |-> <<DuoCall(r1, "search", NoMatch, "", FALSE),
                         DuoCall(r2, "search", NoMatch, "", FALSE)>>]
  /\ UNCHANGED <<engineVars, nz, bq, api, job, lab, bench, twin>>

\* processTextEdit of call i up to updateSourceFile: the search of the files
\* as they are now, the scores, the best match and the acceptance test
DuoSearch(i) ==
  /\ duo.stage = "running"
  /\ duo.calls[i].pc = "search"
  /\ \E r \in {duo.calls[i].req}, order \in GlobOrders :
       \E selected \in {SelectedMatch(duo.fs, order, r)} :
         duo' = [duo EXCEPT !.calls[i] =
                   IF Accepted(selected)
                   THEN DuoCall(r, "read", selected.best, "", FALSE)
                   ELSE DuoCall(r, "done", NoMatch, "", FALSE)]
  /\ UNCHANGED <<engineVars, nz, bq, api, job, lab, bench, twin>>

\* updateSourceFile of call i: readFile and the rewritten content
DuoRead(i) ==
  /\ duo.stage = "running"
  /\ duo.calls[i].pc = "read"
  /\ \E c \in {duo.calls[i]} :
       \E content \in {duo.fs[c.best.match.filePath].content} :
         duo' = [duo EXCEPT !.calls[i] =
                   IF LineExists(c.best.match.lineNumber, SplitLines(content))
                   THEN DuoCall(c.req, "write", c.best,
                                UpdatedContent(content, c.best.match, c.req.newText), FALSE)
                   ELSE DuoCall(c.req, "done", c.best, "", FALSE)]
  /\ UNCHANGED <<engineVars, nz, bq, api, job, lab, bench, twin>>

\* updateSourceFile of call i: writeFile, and the success result
DuoWrite(i) ==
  /\ duo.stage = "running"
  /\ duo.calls[i].pc = "write"
  /\ \E c \in {duo.calls[i]} :
       duo' = [duo EXCEPT !.fs[c.best.match.filePath] = File(c.pending),
                          !.calls[i] = DuoCall(c.req, "done", c.best, c.pending, TRUE)]
  /\ UNCHANGED <<engineVars, nz, bq, api, job, lab, bench, twin>>

NextDuo ==
  \/ \E r1, r2 \in DuoRequests : DuoStart(r1, r2)
  \/ \E i \in 1..2 : DuoSearch(i)
  \/ \E i \in 1..2 : DuoRead(i)
  \/ \E i \in 1..2 : DuoWrite(i)

SpecDuo == Init /\ [][NextDuo]_vars

\* both calls returned success = true for different lines of one file
BothPatched ==
  /\ duo.stage = "running"
  /\ \A i \in 1..2 : duo.calls[i].pc = "done" /\ duo.calls[i].success
  /\ duo.calls[1].best.match.filePath = duo.calls[2].best.match.filePath
  /\ duo.calls[1].best.match.lineNumber # duo.calls[2].best.match.lineNumber

\* C11: two calls that select the same file do not interleave their
\* read-modify-write sections: when both returned success = true for
\* different lines of that file, the file holds both replacements, each line
\* as the call that patched it wrote it
NoLostUpdate ==
  BothPatched =>
    \A i \in 1..2 :
      LET Kept(c) ==
            SplitLines(duo.fs[c.best.match.filePath].content)[c.best.match.lineNumber]
              = SplitLines(c.pending)[c.best.match.lineNumber]
      IN Kept(duo.calls[i])

-----------------------------------------------------------------------------
(* One line through the search, the acceptance test and the patch          *)

\* lines that hold the searched text more than once, or in an attribute
LabLines ==
  { "  { title: \"Save\", label: \"Save\" },",
    "  label: \"Save\", hint: \"Save changes\",",
    "  \"Save\": \"Save\",",
    "<button>Save</button>",
    "<p>Save or Save</p>",
    "<img title=\"Old Title\" />",
    "<img src=\"a.png\" title=\"Old Title\" />",
    "<a title=\"Old Title\">Old Title</a>" }

LabRequests ==
  { EditContext(t, n, id, "", <<>>, "/") :
      t \in {"Save", "Old Title"}, n \in {"Store", "New Title"}, id \in {"", "hero"} }

\* a project whose only file is home.tsx with the line, and a request
LabStart(line, r) ==
  /\ lab.stage = "idle"
  /\ pc = "idle"
  /\ lab' = [LabIdle EXCEPT !.stage = "input", !.line = line, !.req = r]
  /\ UNCHANGED <<engineVars, nz, bq, duo, api, job, bench, twin>>

\* processTextEdit up to updateSourceFile
LabSelect ==
  /\ lab.stage = "input"
  /\ \E order \in GlobOrders :
       \E selected \in {SelectedMatch(Corpus(File(lab.line), NoFile, NoFile), order,
                                      lab.req)} :
         lab' = [lab EXCEPT !.stage = IF Accepted(selected) THEN "selected" ELSE "rejected",
                            !.best = selected.best]
  /\ UNCHANGED <<engineVars, nz, bq, duo, api, job, bench, twin>>

\* the line updateSourceFile writes
LabPatch ==
  /\ lab.stage = "selected"
  /\ lab' = [lab EXCEPT !.stage = "patched",
                        !.patched = UpdatedLine(lab.line, lab.best.match.matchedText,
                                                lab.req.newText)]
  /\ UNCHANGED <<engineVars, nz, bq, duo, api, job, bench, twin>>

NextLab ==
  \/ \E line \in LabLines, r \in LabRequests : LabStart(line, r)
  \/ LabSelect
  \/ LabPatch

SpecLab == Init /\ [][NextLab]_vars

\* the positions of the line at which the text occurs
OccurrencesOf(line, text) == {k \in 1..Len(line) : StartsAt(line, text, k)}

\* the line with the span of the given length at position k replaced
SpanReplaced(line, k, length, newText) ==
  SubSeq(line, 1, k - 1) \o newText \o SubSeq(line, k + length, Len(line))

\* C12: when the matched literal occurs more than once on the target line,
\* the patched line is the original line with one occurrence of the literal
\* replaced by newText and every other occurrence left as it was
SingleSpanRewritten ==
  (lab.stage = "patched"
     /\ Cardinality(OccurrencesOf(lab.line, lab.best.match.matchedText)) > 1) =>
    \E k \in OccurrencesOf(lab.line, lab.best.match.matchedText) :
      lab.patched = SpanReplaced(lab.line, k, Len(lab.best.match.matchedText),
                                 lab.req.newText)

\* the attribute of the scenario, with the given value
TitleAttribute(value) == "title=\"" \o value \o "\""

\* C13: for a line that carries title="Old Title" and a request whose
\* originalText is Old Title, the selected candidate has isTextContentMatch =
\* true, and the patched line is the original line with the value between the
\* quotes of that attribute replaced by newText: attribute name, quotes and
\* the rest of the line are as before
AttributeScenario ==
  (lab.stage \in {"selected", "patched"}
     /\ Includes(lab.line, TitleAttribute("Old Title"))
     /\ lab.req.originalText = "Old Title") =>
    /\ lab.best.match.isTextContentMatch
    /\ lab.stage = "patched" =>
         \E k \in OccurrencesOf(lab.line, TitleAttribute("Old Title")) :
           lab.patched = SpanReplaced(lab.line, k, Len(TitleAttribute("Old Title")),
                                      TitleAttribute(lab.req.newText))

\* C14: processTextEdit never creates and never deletes a file: when the
\* call has ended, also when another actor removed or changed a file during
\* it, the files that exist are the files that existed when it started less
\* the files the other actor removed
FileSetPreserved ==
  Done => \A p \in Paths : fs[p].exists <=> (fs0[p].exists /\ p \notin gone)

\* C17: a call made by the debug route performs no write to a source file
\* and, when no other writer acts, leaves the content of every file as it was
DebugReadOnly ==
  req \in DebugRequests => (writes = <<>> /\ (envSteps = 0 => fs = fs0))

-----------------------------------------------------------------------------
(* The variation generator over inputs put together from pieces            *)

\* the inputs: the strings of pieces, and the shorter ones behind each of
\* the prefixes that staticPrefixes strips
VariationInputs ==
  PieceStrings(MaxPieces)
  \cup {p \o s : p \in {"1. ", "a) ", "- "}, s \in PieceStrings(MaxPieces - 1)}

VariationStart(s) ==
  /\ lab.stage = "idle"
  /\ pc = "idle"
  /\ lab' = [LabIdle EXCEPT !.stage = "text", !.line = s]
  /\ UNCHANGED <<engineVars, nz, bq, duo, api, job, bench, twin>>

VariationGenerate ==
  /\ lab.stage = "text"
  /\ lab' = [lab EXCEPT !.stage = "variations", !.list = extractDynamicPart(lab.line)]
  /\ UNCHANGED <<engineVars, nz, bq, duo, api, job, bench, twin>>

NextVariation ==
  \/ \E s \in VariationInputs : VariationStart(s)
  \/ VariationGenerate

SpecVariation == Init /\ [][NextVariation]_vars

\* the list is not empty, has no element twice and starts with the text
VariationsWellFormed ==
  lab.stage = "variations" =>
    /\ Len(lab.list) >= 1
    /\ lab.list[1] = lab.line
    /\ \A i, j \in 1..Len(lab.list) : lab.list[i] = lab.list[j] => i = j

\* C15: for every text, extractDynamicPart returns a list that is not empty,
\* has no element twice, starts with the text and contains
\* cleanSearchText(text)
VariationsContract ==
  /\ VariationsWellFormed
  /\ lab.stage = "variations" =>
       \E i \in 1..Len(lab.list) : lab.list[i] = cleanSearchText(lab.line)

-----------------------------------------------------------------------------
(* The routes: POST /api/text-editor, in its two versions, and POST        *)
(* /api/text-editor/trigger-sync, over the edits table and the files       *)

\* an environment variable or a request header: <<>> when it is not set,
\* <<v>> when its value is v
Unset == <<>>

\* what a template literal makes of the variable
Interpolated(variable) == IF variable = Unset THEN "undefined" ELSE variable[1]

\* the value is neither undefined nor the empty string
Truthy(variable) == variable # Unset /\ variable[1] # ""

\* trigger-sync without the test that the token is configured
UnauthorizedByHeaderOnly(authHeader, expectedToken) ==
  authHeader # <<"Bearer " \o Interpolated(expectedToken)>>

\* !expectedToken || authHeader !== 'Bearer ' + expectedToken
Unauthorized(authHeader, expectedToken) ==
  ~Truthy(expectedToken) \/ authHeader # <<"Bearer " \o Interpolated(expectedToken)>>

\* the POST handler of trigger-sync: the status of its response and whether
\* it sent the repository_dispatch request to GitHub
triggerSync(authHeader, expectedToken, githubConfigured, githubOk) ==
  IF Unauthorized(authHeader, expectedToken)
  THEN [header |-> authHeader, status |-> 401, dispatched |-> FALSE]
  ELSE IF ~githubConfigured
  THEN [header |-> authHeader, status |-> 500, dispatched |-> FALSE]
  ELSE [header |-> authHeader, status |-> IF githubOk THEN 200 ELSE 500,
        dispatched |-> TRUE]

\* edits one deployment receives, and calls of trigger-sync it receives
MaxEdits == 1
MaxSyncs == 2

\* the two versions of the route, by the file that holds them
RouteVersions == {"part_003", "part_002"}

\* the values of SYNC_SECRET_TOKEN and of the Authorization header
SyncTokens == {Unset, <<"">>, <<"s3cret">>}
AuthHeaders ==
  {Unset, <<"Bearer s3cret">>, <<"Bearer ">>, <<"Bearer undefined">>, <<"s3cret">>}

\* the bodies posted to the route
ApiRequests ==
  { EditContext("Welcome", "Hello", "hero", "", <<>>, "/"),
    EditContext("Goodbye", "Hello", "", "", <<>>, "/") }

\* the deployment starts with its environment, over the source tree CorpusRoot;
\* syncs is the set of the responses trigger-sync has given
ApiBoot(nodeEnv, version, token, githubConfigured) ==
  /\ api.stage = "idle"
  /\ pc = "idle"
  /\ fs = CorpusRoot
  /\ api' = [stage |-> "up", nodeEnv |-> nodeEnv, version |-> version, token |-> token,
             github |-> githubConfigured, fs |-> fs, edits |-> <<>>, syncs |-> {},
             processed |-> 0, writes |-> 0]
  /\ UNCHANGED <<engineVars, nz, bq, duo, job, lab, bench, twin>>

\* POST with a body the schema rejects: status 400, nothing is saved
PostInvalid ==
  /\ api.stage = "up"
  /\ Len(api.edits) < MaxEdits
  /\ api' = [api EXCEPT !.edits = Append(@, [req |-> NoRequest, status |-> "none",
                                             phase |-> "answered", code |-> 400])]
  /\ UNCHANGED <<engineVars, nz, bq, duo, job, lab, bench, twin>>

\* POST up to database.saveEdit(editRecord)
PostSave(r) ==
  /\ api.stage = "up"
  /\ Len(api.edits) < MaxEdits
  /\ api' = [api EXCEPT !.edits =
               Append(@, [req |-> r,
                          status |-> IF api.version = "part_003"
                                          /\ api.nodeEnv = "production"
                                     THEN "pending" ELSE "processing",
                          phase |-> "saved", code |-> 0])]
  /\ UNCHANGED <<engineVars, nz, bq, duo, job, lab, bench, twin>>

\* POST after saveEdit, in production, version part_003: the request to
\* trigger-sync when the token is set, which may not get through, and 202
PostTrigger(i) ==
  /\ api.stage = "up"
  /\ i \in 1..Len(api.edits)
  /\ api.edits[i].phase = "saved"
  /\ api.version = "part_003"
  /\ api.nodeEnv = "production"
  /\ \E reached, githubOk \in BOOLEAN :
       api' = [api EXCEPT !.edits[i].phase = "answered",
                          !.edits[i].code = 202,
                          !.syncs = IF Truthy(api.token) /\ reached
                                       /\ Cardinality(@) < MaxSyncs
                                    THEN @ \cup {triggerSync(
                                                    <<"Bearer " \o Interpolated(api.token)>>,
                                                    api.token, api.github, githubOk)}
                                    ELSE @]
  /\ UNCHANGED <<engineVars, nz, bq, duo, job, lab, bench, twin>>

\* POST after saveEdit, in production, version part_002: a result with
\* success = true is made up and updateEditStatus stores applied
PostDatabaseOnly(i) ==
  /\ api.stage = "up"
  /\ i \in 1..Len(api.edits)
  /\ api.edits[i].phase = "saved"
  /\ api.version = "part_002"
  /\ api.nodeEnv = "production"
  /\ api' = [api EXCEPT !.edits[i].phase = "answered",
                        !.edits[i].status = "applied",
                        !.edits[i].code = 200]
  /\ UNCHANGED <<engineVars, nz, bq, duo, job, lab, bench, twin>>

\* POST after saveEdit, outside production: processTextEdit, updateEditStatus
\* with applied or failed, and 200 or 400
PostProcess(i) ==
  /\ api.stage = "up"
  /\ i \in 1..Len(api.edits)
  /\ api.edits[i].phase = "saved"
  /\ api.nodeEnv # "production"
  /\ \E order \in ListingOrders(api.fs) :
       \E out \in {processTextEditAlone(api.fs, order, api.edits[i].req)} :
         api' = [api EXCEPT !.edits[i].phase = "answered",
                            !.edits[i].status =
                               IF out.result.success THEN "applied" ELSE "failed",
                            !.edits[i].code = IF out.result.success THEN 200 ELSE 400,
                            !.fs = out.fs,
                            !.processed = @ + 1,
                            !.writes = IF out.result.success THEN @ + 1 ELSE @]
  /\ UNCHANGED <<engineVars, nz, bq, duo, job, lab, bench, twin>>

\* POST to trigger-sync by any caller
TriggerSync(authHeader) ==
  /\ api.stage = "up"
  /\ Cardinality(api.syncs) < MaxSyncs
  /\ \E githubOk \in BOOLEAN :
       api' = [api EXCEPT !.syncs = @ \cup {triggerSync(authHeader, api.token,
                                                        api.github, githubOk)}]
  /\ UNCHANGED <<engineVars, nz, bq, duo, job, lab, bench, twin>>

NextApi ==
  \/ \E nodeEnv \in {"production", "development"}, version \in RouteVersions,
        token \in SyncTokens, githubConfigured \in BOOLEAN :
       ApiBoot(nodeEnv, version, token, githubConfigured)
  \/ PostInvalid
  \/ \E r \in ApiRequests : PostSave(r)
  \/ \E i \in 1..MaxEdits : PostTrigger(i)
  \/ \E i \in 1..MaxEdits : PostDatabaseOnly(i)
  \/ \E i \in 1..MaxEdits : PostProcess(i)
  \/ \E authHeader \in AuthHeaders : TriggerSync(authHeader)

SpecApi == Init /\ [][NextApi]_vars

\* C16: in production the route stores every edit it accepts with status
\* pending and the status stays pending (no apply-edits run takes part
\* here), processTextEdit is never called and no source file is written
ProductionStaysPending ==
  (api.stage = "up" /\ api.nodeEnv = "production") =>
    /\ api.processed = 0
    /\ api.writes = 0
    /\ api.fs = fs
    /\ \A i \in 1..Len(api.edits) :
         api.edits[i].status # "none" => api.edits[i].status = "pending"

\* C18: trigger-sync sends the repository_dispatch request only when
\* SYNC_SECRET_TOKEN is configured and the Authorization header is Bearer
\* followed by the token; in every other case the response is 401 and no
\* request is sent
SyncNeedsToken ==
  api.stage = "up" =>
    \A response \in api.syncs :
      LET Authorized(sync) ==
            /\ api.token # Unset
            /\ sync.header # Unset
            /\ sync.header[1] = "Bearer " \o api.token[1]
          Holds(sync) ==
            /\ sync.dispatched => Authorized(sync)
            /\ ~Authorized(sync) => (sync.status = 401 /\ ~sync.dispatched)
      IN Holds(response)

\* a request with the configured token was passed on to GitHub, and one
\* with another header was answered with 401
SyncDispatchedAndRefused ==
  /\ api.stage = "up"
  /\ \E passed, refused \in api.syncs :
       /\ passed.dispatched /\ passed.status = 200
       /\ refused.status = 401 /\ refused.header # Unset

-----------------------------------------------------------------------------
(* The apply-edits script: the one of unnamed/part_001, which replaces the  *)
(* text in every file that holds it, and the one of PRODUCTION-SETUP.md,    *)
(* which hands every edit to TextProcessor.  A run reads the rows of        *)
(* inline_edits it is to apply, calls applyEdit on each in turn and ends;   *)
(* the script may then be run again.                                        *)

\* the project the script is run for
projectId == "site"

\* the runs of the script over one table
MaxRuns == 2

\* (status = 'processing' OR status = 'failed' OR status = 'pending'),
\* without failed
RetryStatusesWithoutFailed == {"processing", "pending"}

\* (status = 'processing' OR status = 'failed' OR status = 'pending')
RetryStatuses == {"processing", "failed", "pending"}

\* if (isDryRun) is never taken
DryRunIgnored(isDryRun) == FALSE

\* if (isDryRun) return { success: true, isDryRun: true }
DryRunReturns(isDryRun) == isDryRun

\* the rows of inline_edits: metadata->>'projectId' is Unset when the
\* metadata has no projectId
EditRows ==
  [ status : {"pending", "processing", "failed", "applied"},
    projectId : {Unset, <<projectId>>, <<"other">>},
    createdAt : 1..2,
    originalText : {"Welcome", "Goodbye"} ]

\* the tables of two rows, the id of a row being its index: two edits of the
\* heading, or an edit of a text no file holds and one of the heading
EditTables ==
  {table \in [1..2 -> EditRows] : table[2].originalText = "Welcome"}

\* the WHERE clause of getPendingEdits
Selected(row, project) ==
  /\ row.status \in RetryStatuses
  /\ (row.projectId = <<project>> \/ row.projectId = Unset)

\* ORDER BY created_at ASC: the orders the database may return the ids in
Ascending(table, ids) ==
  {q \in [1..Cardinality(ids) -> ids] :
     /\ \A i, j \in DOMAIN q : q[i] = q[j] => i = j
     /\ \A i, j \in DOMAIN q : i < j => table[q[i]].createdAt <= table[q[j]].createdAt}

\* getPendingEdits: the ids of result.rows
getPendingEdits(table, project) ==
  Ascending(table, {id \in DOMAIN table : Selected(table[id], project)})

\* applyEdit: the editContext built from a row
EditContextOf(row) == EditContext(row.originalText, "Hello", "hero", "", <<>>, "/")

\* findAndReplaceInFiles over the files it was given: every file that holds
\* the text is rewritten with every occurrence replaced; the result and the
\* files afterwards
findAndReplaceInFiles(fsys, files, originalText, newText) ==
  LET Holding == {p \in files : Includes(fsys[p].content, originalText)}
  IN [success |-> Holding # {},
      written |-> Cardinality(Holding),
      fs |-> [p \in DOMAIN fsys |->
                IF p \in Holding
                THEN File(ReplaceAllLit(fsys[p].content, originalText, newText))
                ELSE fsys[p]]]

\* npm run apply-edits, with or without --dry-run
JobBoot(table, variant, isDryRun) ==
  /\ job.stage = "idle"
  /\ pc = "idle"
  /\ fs = CorpusRoot
  /\ job' = [JobIdle EXCEPT !.stage = "fetch", !.variant = variant,
                            !.isDryRun = isDryRun, !.table = table,
                            !.before = table, !.fs = fs, !.beforeFs = fs, !.run = 1]
  /\ UNCHANGED <<engineVars, nz, bq, duo, api, lab, bench, twin>>

\* main: pendingEdits = await getPendingEdits(), and the return when there
\* is none
JobFetch ==
  /\ job.stage = "fetch"
  /\ \E q \in getPendingEdits(job.table, projectId) :
       job' = [job EXCEPT !.stage = IF q = <<>> THEN "ended" ELSE "apply",
                          !.queue = q, !.done = 0]
  /\ UNCHANGED <<engineVars, nz, bq, duo, api, lab, bench, twin>>

\* main: one turn of the loop over pendingEdits, applyEdit(edit) with its
\* updateEditStatus
JobApply ==
  /\ job.stage = "apply"
  /\ LET id == job.queue[job.done + 1]
         stage == IF job.done + 1 = Len(job.queue) THEN "ended" ELSE "apply"
         Finish(success, fsys, written) ==
           job' = [job EXCEPT !.stage = stage, !.done = @ + 1,
                              !.table[id].status = IF success THEN "applied" ELSE "failed",
                              !.fs = fsys,
                              !.updates = @ + 1,
                              !.fileWrites = @ + written,
                              !.last = [id |-> id, success |-> success,
                                        isDryRun |-> FALSE]]
     IN IF DryRunReturns(job.isDryRun)
        THEN job' = [job EXCEPT !.stage = stage, !.done = @ + 1,
                                !.last = [id |-> id, success |-> TRUE, isDryRun |-> TRUE]]
        ELSE IF job.variant = "enhanced"
        THEN \E order \in ListingOrders(job.fs) :
               \E out \in {processTextEditAlone(job.fs, order, EditContextOf(job.table[id]))} :
                 Finish(out.result.success, out.fs, IF out.result.success THEN 1 ELSE 0)
        ELSE \E files \in SUBSET {p \in Paths : job.fs[p].exists} :
               /\ files # {}
               /\ \E out \in {findAndReplaceInFiles(job.fs, files,
                                                    job.table[id].originalText, "Hello")} :
                    Finish(out.success, out.fs, out.written)
  /\ UNCHANGED <<engineVars, nz, bq, duo, api, lab, bench, twin>>

\* the script is run again over the same table and files
JobRerun(isDryRun) ==
  /\ job.stage = "ended"
  /\ job.run < MaxRuns
  /\ job' = [job EXCEPT !.stage = "fetch", !.isDryRun = isDryRun, !.run = @ + 1,
                        !.before = job.table, !.beforeFs = job.fs,
                        !.queue = <<>>, !.done = 0, !.updates = 0, !.fileWrites = 0,
                        !.last = NoOutcome]
  /\ UNCHANGED <<engineVars, nz, bq, duo, api, lab, bench, twin>>

NextJob ==
  \/ \E table \in EditTables, variant \in {"basic", "enhanced"}, isDryRun \in BOOLEAN :
       JobBoot(table, variant, isDryRun)
  \/ JobFetch
  \/ JobApply
  \/ \E isDryRun \in BOOLEAN : JobRerun(isDryRun)

SpecJob == Init /\ [][NextJob]_vars

\* C19: a run with --dry-run changes nothing: whatever rows it finds, the
\* source files and the rows of inline_edits are as they were when the run
\* began, no file was written and updateEditStatus was not called
DryRunChangesNothing ==
  (job.stage # "idle" /\ job.isDryRun) =>
    /\ job.fs = job.beforeFs
    /\ job.table = job.before
    /\ job.updates = 0
    /\ job.fileWrites = 0

\* a run with --dry-run went through two edits, one of them a pending edit
\* of a text the files hold
DryRunWentThrough ==
  /\ job.isDryRun
  /\ job.stage = "ended"
  /\ job.done = 2
  /\ \E id \in DOMAIN job.table :
       /\ job.table[id].status = "pending"
       /\ job.table[id].originalText = "Welcome"

\* what a step of the script does, given which rows a run is to select
RunContract(Eligible(_)) ==
  LET Fetched == job.stage = "fetch" /\ job'.stage # "fetch"
      Applied == job.stage = "apply" /\ job'.done = job.done + 1
      Ids == {id \in DOMAIN job.table : Eligible(job.table[id])}
      Turn(id) ==
        /\ job'.last.id = id
        /\ job'.table[id].status = IF job'.last.success THEN "applied" ELSE "failed"
        /\ \A other \in DOMAIN job.table \ {id} : job'.table[other] = job.table[other]
        /\ job.variant = "enhanced" =>
             \E order \in ListingOrders(job.fs) :
               processTextEditAlone(job.fs, order, EditContextOf(job.table[id])).result.success
                 = job'.last.success
  IN /\ Fetched =>
          /\ {job'.queue[k] : k \in DOMAIN job'.queue} = Ids
          /\ Len(job'.queue) = Cardinality(Ids)
          /\ \A i, j \in DOMAIN job'.queue :
               i < j => job.table[job'.queue[i]].createdAt
                          <= job.table[job'.queue[j]].createdAt
     /\ (Applied /\ ~job.isDryRun) => Turn(job.queue[job.done + 1])
     /\ \A id \in DOMAIN job.table :
          job.table[id].status = "applied" =>
            /\ job'.table[id] = job.table[id]
            /\ Fetched => \A k \in DOMAIN job'.queue : job'.queue[k] # id

-----------------------------------------------------------------------------
(* The validator, the scorer and the ranker over the candidates of a small  *)
(* project and requests with every kind of evidence                         *)

BenchPaths ==
  {"app/about/page.tsx", "src/components/hero.tsx", "data/site.map.json",
   "app/(light-bg)/team.tsx"}

BenchFiles ==
  [p \in BenchPaths |->
     File(IF p = "app/about/page.tsx"
          THEN "<h1>Welcome</h1>\n<p>Welcome to our site</p>\n<p>We build things that last</p>\n<ul><li>Us</li></ul>\n"
          ELSE IF p = "src/components/hero.tsx"
          THEN "<Hero title=\"Welcome\" className=\"hero-title\" />\n<a id=\"Welcome\">Welcome</a>"
          ELSE IF p = "data/site.map.json"
          THEN "{ \"slug\": \"Welcome\",\n\"html\": \"<a title='Welcome'>\" }"
          ELSE "<h2>Welcome</h2>\n<div id=\"Welcome\">")]

\* the files glob lists, in its order: one file, or several
BenchListings ==
  { <<"app/about/page.tsx">>, <<"data/site.map.json">>,
    <<"src/components/hero.tsx", "app/about/page.tsx">>,
    <<"app/(light-bg)/team.tsx", "data/site.map.json", "src/components/hero.tsx">> }

\* the requests: short and long text, with an element id, with three classes
\* or with neither, a parent text (equal to the text, holding it, or foreign to it),
\* siblings the files hold or lack, a page, and a short or a detailed selector
BenchParents ==
  {"", "Welcome", "Welcome to our site", "Say Welcome to our site now", "Other"}

BenchSiblings ==
  { <<>>,
    <<[isString |-> TRUE, text |-> "p: We build things that last[0]"]>>,
    <<[isString |-> TRUE, text |-> "p: Nothing of this is in a file[0]"]>> }

BenchEvidence ==
  { <<id, classes>> : id \in {"", "hero"}, classes \in {<<>>, <<"hero", "big", "dark">>} }
  \ { <<"hero", <<"hero", "big", "dark">>>> }

BenchTexts == {"Welcome", "Welcome to our site", "."}
BenchUrls == {"", "/", "/about"}

BenchContexts(text, url) ==
  { [EditContext(text, "Hello", evidence[1], parent, siblings, url)
       EXCEPT !.elementClasses = evidence[2], !.cssSelector = selector] :
      evidence \in BenchEvidence,
      parent \in BenchParents,
      siblings \in BenchSiblings,
      selector \in {"h1", "main > h1.hero-title.big"} }

\* the matches the scan pushes for the listed files
BenchMatches(listing, originalText) ==
  LET Over(searchVariations) ==
        ConcatRange([i \in 1..Len(listing) |->
                       MatchesInFile(listing[i], BenchFiles[listing[i]].content,
                                     searchVariations)],
                    1, Len(listing))
  IN Over(extractDynamicPart(cleanSearchText(originalText)))

\* findTextInSourceFiles and filterByPageContext of processTextEdit, for
\* a request with the text and the page
BenchScan(text, url, listing) ==
  /\ pc = "idle"
  /\ fs = CorpusRoot
  /\ bench.stage = "idle"
  /\ \E list \in {filterByPageContext(BenchMatches(listing, text), url)} :
       \E context \in BenchContexts(text, url) :
         bench' = [BenchIdle EXCEPT !.stage = "candidates", !.context = context,
                                    !.list = list]
  /\ UNCHANGED <<engineVars, nz, bq, duo, api, job, lab, twin>>

\* scoreMatchesWithContext, with the verdict of validateExactContext on
\* every candidate, and findBestMatch
BenchScore ==
  /\ bench.stage = "candidates"
  /\ \E outcome \in {scoreMatchesWithContext(BenchFiles, {}, bench.list, bench.context)} :
     bench' = [bench EXCEPT
                 !.stage = "ranked",
                 !.unique = IsUniqueText(bench.list),
                 !.verdicts = Strict([i \in 1..Len(bench.list) |->
                                        validateExactContext(BenchFiles, {}, bench.list[i],
                                                             bench.context,
                                                             IsUniqueText(bench.list))]),
                 !.scored = outcome.list,
                 !.best = findBestMatch(outcome.list)]
  /\ UNCHANGED <<engineVars, nz, bq, duo, api, job, lab, twin>>

\* scored matches of every bucket, with high and low confidence
RankLines ==
  {"<h1>Welcome</h1>", "<Hero title=\"Welcome\" />", "<a id=\"Welcome\">Welcome</a>",
   "<div id=\"Welcome\">"}

RankEntries ==
  { [ScoredMatchOf(FileMatchOf("app/page.tsx", 1, line, "Welcome"), NoRequest)
       EXCEPT !.confidence = confidence] :
      line \in RankLines, confidence \in {1, confidenceScale} }

MaxRanked == 2

\* the lists scoreMatchesWithContext can return: sorted by confidence
RankLists ==
  { list \in UNION {[1..n -> RankEntries] : n \in 0..MaxRanked} :
      \A i \in 1..(Len(list) - 1) : list[i].confidence >= list[i + 1].confidence }

\* findBestMatch of a scored list
BenchRank(list) ==
  /\ pc = "idle"
  /\ fs = CorpusRoot
  /\ bench.stage = "idle"
  /\ bench' = [BenchIdle EXCEPT !.stage = "ranked", !.scored = list,
                                !.best = findBestMatch(list)]
  /\ UNCHANGED <<engineVars, nz, bq, duo, api, job, lab, twin>>

\* texts that cleanSearchText turns into the empty string
EmptyTexts == {"", " ", ".", "\"\"", "'"}

\* a project whose file has a blank line, an empty string literal, adjacent
\* tags, or none of them
EmptyCorpora ==
  { Corpus(File(content), NoFile, NoFile) :
      content \in {"<main>\n\n<h1>Welcome</h1>", "<main>\n<img alt=\"\" />",
                   "<ul><li>One</li></ul>", HomeContent} }

\* processTextEdit for a request whose text normalizes to the empty string
BenchEdit(text, id, corpus) ==
  /\ pc = "idle"
  /\ fs = CorpusRoot
  /\ bench.stage = "idle"
  /\ \E r \in {EditContext(text, "Hello", id, "", <<>>, "/")}, order \in ListingOrders(corpus) :
       \E outcome \in {processTextEditAlone(corpus, order, r)} :
         bench' = [BenchIdle EXCEPT
                     !.stage = "edited",
                     !.context = r,
                     !.list = findTextInSourceFiles(corpus, SourceDirOf(corpus), order, {},
                                                    r.originalText),
                     !.corpus = corpus,
                     !.after = outcome.fs,
                     !.result = outcome.result]
  /\ UNCHANGED <<engineVars, nz, bq, duo, api, job, lab, twin>>

NextBench ==
  \/ \E text \in EmptyTexts, id \in {"", "hero"}, corpus \in EmptyCorpora :
       BenchEdit(text, id, corpus)
  \/ \E text \in BenchTexts, url \in BenchUrls, listing \in BenchListings :
       BenchScan(text, url, listing)
  \/ \E list \in RankLists : BenchRank(list)
  \/ BenchScore

SpecBench == Init /\ [][NextBench]_vars

-----------------------------------------------------------------------------
(* One edit record between the development route, which saves it with       *)
(* status 'processing', calls processTextEdit and then updates the status,  *)
(* and runs of the apply-edits script, which select the record by its       *)
(* status, call processTextEdit and then update the status.  The two are    *)
(* separate processes over the same files and the same table.               *)

TwinRequests ==
  { EditContext("Welcome", "Hello", id, "", <<>>, url) :
      id \in {"", "hero"}, url \in {"/", "/about"} }

TwinCorpora == {CorpusRoot, CorpusDup}

\* runs of the script
MaxTwinRuns == 2

\* the route: editRecord with status 'processing', database.saveEdit
TwinPost(r, corpus) ==
  /\ pc = "idle"
  /\ fs = CorpusRoot
  /\ twin.stage = "idle"
  /\ twin' = [TwinIdle EXCEPT !.stage = "up", !.request = r, !.fs = corpus,
                              !.status = "processing", !.route = "saved"]
  /\ UNCHANGED <<engineVars, nz, bq, duo, api, job, lab, bench>>

\* the route: result = await textProcessor.processTextEdit(processEditData)
TwinProcess ==
  /\ twin.route = "saved"
  /\ \E order \in ListingOrders(twin.fs) :
       \E out \in {processTextEditAlone(twin.fs, order, twin.request)} :
         twin' = [twin EXCEPT !.route = "processed", !.fs = out.fs, !.result = out.result,
                              !.writes = IF out.result.success THEN @ + 1 ELSE @]
  /\ UNCHANGED <<engineVars, nz, bq, duo, api, job, lab, bench>>

\* the route: database.updateEditStatus(editId, finalStatus, ...)
TwinUpdate ==
  /\ twin.route = "processed"
  /\ twin' = [twin EXCEPT !.route = "answered",
                          !.status = IF twin.result.success THEN "applied" ELSE "failed"]
  /\ UNCHANGED <<engineVars, nz, bq, duo, api, job, lab, bench>>

\* the route: updateEditStatus rejects, or the process ends before it; the
\* catch block answers 500 and the status stays as saved
TwinUpdateFails ==
  /\ twin.route = "processed"
  /\ twin' = [twin EXCEPT !.route = "failed"]
  /\ UNCHANGED <<engineVars, nz, bq, duo, api, job, lab, bench>>

\* the script: getPendingEdits; the record of the route has no projectId in
\* its metadata, so its status alone decides
TwinFetch ==
  /\ twin.stage = "up"
  /\ twin.script \in {"idle", "ended"}
  /\ twin.runs < MaxTwinRuns
  /\ twin' = [twin EXCEPT !.runs = @ + 1,
                          !.script = IF twin.status \in RetryStatuses
                                     THEN "selected" ELSE "ended"]
  /\ UNCHANGED <<engineVars, nz, bq, duo, api, job, lab, bench>>

\* the script: applyEdit up to the return of processTextEdit
TwinApply ==
  /\ twin.script = "selected"
  /\ \E order \in ListingOrders(twin.fs) :
       \E out \in {processTextEditAlone(twin.fs, order, twin.request)} :
         twin' = [twin EXCEPT !.script = IF out.result.success THEN "patched" ELSE "refused",
                              !.fs = out.fs,
                              !.writes = IF out.result.success THEN @ + 1 ELSE @]
  /\ UNCHANGED <<engineVars, nz, bq, duo, api, job, lab, bench>>

\* the script: updateEditStatus(edit.id, 'applied' or 'failed')
TwinMark ==
  /\ twin.script \in {"patched", "refused"}
  /\ twin' = [twin EXCEPT !.script = "ended",
                          !.status = IF twin.script = "patched" THEN "applied" ELSE "failed"]
  /\ UNCHANGED <<engineVars, nz, bq, duo, api, job, lab, bench>>

\* the script: updateEditStatus rejects, or the run is stopped before it
TwinMarkFails ==
  /\ twin.script \in {"patched", "refused"}
  /\ twin' = [twin EXCEPT !.script = "ended"]
  /\ UNCHANGED <<engineVars, nz, bq, duo, api, job, lab, bench>>

NextTwin ==
  \/ \E r \in TwinRequests, corpus \in TwinCorpora : TwinPost(r, corpus)
  \/ TwinProcess
  \/ TwinUpdate
  \/ TwinUpdateFails
  \/ TwinFetch
  \/ TwinApply
  \/ TwinMark
  \/ TwinMarkFails

SpecTwin == Init /\ [][NextTwin]_vars

-----------------------------------------------------------------------------
(* Properties of the candidate list, of the ranking and of a line that     *)
(* another writer changed                                                   *)

\* C26: the list the scan returns holds at most one entry for a file and
\* line
OneEntryPerLine ==
  \A i, j \in 1..Len(matches) :
    (matches[i].filePath = matches[j].filePath
       /\ matches[i].lineNumber = matches[j].lineNumber) => i = j

\* C22: when every file is read, the validator is told that the text is
\* unique, and so adds the uniqueness bonus, exactly when one file and line
\* of the corpus matched
UniqueExactlyWhenOneLine ==
  (pc = "score" /\ faults = 0) =>
    (IsUniqueText(filterByPageContext(matches, req.pageUrl))
       <=> Cardinality(Locations(matches)) = 1)

\* the bucket of the ranker a candidate falls in: 1 for text content that is
\* not attribute-bound, 2 for attribute-bound text content on a line with a
\* content attribute, 3 for other attribute-bound text content, 4 otherwise
Bucket(m) ==
  IF m.isTextContentMatch /\ ~m.isAttributeMatch THEN 1
  ELSE IF m.isTextContentMatch /\ m.isAttributeMatch
          /\ \E attr \in contentAttributes : Includes(ToLowerCase(m.originalLine), attr)
  THEN 2
  ELSE IF m.isTextContentMatch /\ m.isAttributeMatch THEN 3
  ELSE 4

\* the place of a file and line in the order of discovery
Discovered(filePath, lineNumber) ==
  CHOOSE i \in 1..Len(matches) :
    /\ matches[i].filePath = filePath /\ matches[i].lineNumber = lineNumber
    /\ \A j \in 1..(i - 1) :
         ~(matches[j].filePath = filePath /\ matches[j].lineNumber = lineNumber)

\* C24: of the validated candidates with the confidence and the bucket of
\* the selected one, the selected one was discovered first
FirstDiscoveredWins ==
  (pc \in {"patchRead", "patchWrite", "done"} /\ best.found) =>
    \A i \in 1..Len(scored) :
      (scored[i].confidence = best.match.confidence
         /\ Bucket(scored[i]) = Bucket(best.match)) =>
        Discovered(best.match.filePath, best.match.lineNumber)
          <= Discovered(scored[i].filePath, scored[i].lineNumber)

\* the patch step is about to read a target file that has the candidate's
\* line, and the line no longer holds the matched text
ChangedLine ==
  /\ pc = "patchRead"
  /\ best.found
  /\ fs[best.match.filePath].exists
  /\ LET lines == SplitLines(fs[best.match.filePath].content)
     IN /\ best.match.lineNumber <= Len(lines)
        /\ ~Includes(lines[best.match.lineNumber], best.match.matchedText)

\* C27: when the patch step reads a target file whose line at the
\* candidate's line number no longer holds the matched text, the call ends
\* with success = false and writes nothing
ChangedLineFails ==
  [][(ChangedLine /\ pc' # pc /\ faults' = faults) =>
       /\ pc' = "done"
       /\ ~processResult'.success
       /\ fs' = fs
       /\ writes' = writes]_vars

-----------------------------------------------------------------------------
(* Properties of the validator, the scorer and the ranker                   *)

\* the candidates whose verdict was given by the score and the threshold
Judged(i) ==
  ~RejectedByParentText(getFileContent(BenchFiles, {}, bench.list[i].filePath), bench.context)

\* the validation score of candidate i of the list, in half points
JudgedScore(i) ==
  ValidationScore(getFileContent(BenchFiles, {}, bench.list[i].filePath), bench.list[i],
                  bench.context, bench.unique)

\* the threshold: 1 with an element id, a unique text or three classes,
\* else 3 when the normalized parent text equals the normalized text, else 2
\* for a text shorter than 10 characters, else 1 (in half points)
ClaimedThreshold(context, isUniqueText) ==
  IF context.elementId # "" \/ isUniqueText \/ Len(context.elementClasses) >= 3 THEN 2
  ELSE IF cleanSearchText(context.parentText) = cleanSearchText(context.originalText) THEN 6
  ELSE IF Len(Trim(context.originalText)) < 10 THEN 4
  ELSE 2

\* a scored list holds the accepted candidates and no other, and the
\* selected match is one of them
HardFilter ==
  /\ Len(bench.scored) = Cardinality({i \in 1..Len(bench.list) : bench.verdicts[i].isValid})
  /\ Locations(bench.scored)
       = {<<bench.list[i].filePath, bench.list[i].lineNumber>> :
            i \in {j \in 1..Len(bench.list) : bench.verdicts[j].isValid}}
  /\ bench.best.found =>
       \E k \in 1..Len(bench.scored) : bench.best.match = bench.scored[k]

\* the same table, where the context is minimal only for a parent text
\* that is present and not empty
AmendedThreshold(context, isUniqueText) ==
  IF context.parentText = "" /\ ClaimedThreshold(context, isUniqueText) = 6
  THEN (IF Len(Trim(context.originalText)) < 10 THEN 4 ELSE 2)
  ELSE ClaimedThreshold(context, isUniqueText)

\* every candidate the parentText pre-filter lets through is accepted
\* exactly when its validation score reaches the threshold, and the scored
\* list and the selection hold accepted candidates only
FilterWithThreshold(Threshold(_, _)) ==
  (bench.stage = "ranked" /\ bench.context # NoRequest) =>
    /\ \A i \in 1..Len(bench.list) :
         Judged(i) =>
           (bench.verdicts[i].isValid
              <=> JudgedScore(i) >= Threshold(bench.context, bench.unique))
    /\ HardFilter

ElementIdPasses ==
  (bench.stage = "ranked" /\ bench.context.elementId # "") =>
    \A i \in 1..Len(bench.list) :
      Judged(i) => bench.verdicts[i].isValid /\ JudgedScore(i) >= 2

\* a request with an element id, a sibling the file lacks and a minimal
\* parent text had its candidate judged
ElementIdAgainstPenalties ==
  /\ bench.stage = "ranked"
  /\ bench.context.elementId # ""
  /\ bench.context.parentText = bench.context.originalText
  /\ bench.context.cssSelector = "h1"
  /\ \E i \in 1..Len(bench.list) : Judged(i) /\ JudgedScore(i) = 2

\* C25: every candidate that passes validation has a score of at least 5
\* and confidence 1.0, so a selected match is never below the acceptance
\* threshold
ConfidenceAlwaysFull ==
  (bench.context # NoRequest) =>
    /\ \A k \in 1..Len(bench.scored) :
         /\ bench.scored[k].score >= 5
         /\ bench.scored[k].confidence = confidenceScale
    /\ bench.best.found => ~(bench.best.match.confidence < acceptanceThreshold)

\* a match of the mapping file was scored with the lowest score there is
MappingFileScored ==
  /\ bench.stage = "ranked"
  /\ bench.best.found
  /\ \E k \in 1..Len(bench.scored) :
       /\ bench.scored[k].filePath = "data/site.map.json"
       /\ bench.scored[k].score = 5
       /\ bench.scored[k].confidence = confidenceScale

\* the place of the first candidate of the lowest bucket the list holds
FirstOfFirstBucket(list) ==
  CHOOSE i \in 1..Len(list) :
    /\ \A j \in 1..Len(list) : Bucket(list[i]) <= Bucket(list[j])
    /\ \A j \in 1..(i - 1) : Bucket(list[j]) > Bucket(list[i])

\* C23: the ranker returns null exactly for the empty list, and otherwise the
\* first candidate of the first bucket that is not empty
RankerBuckets ==
  (bench.stage = "ranked") =>
    /\ bench.best.found <=> Len(bench.scored) > 0
    /\ bench.best.found =>
         bench.best.match = bench.scored[FirstOfFirstBucket(bench.scored)]

\* a candidate of an earlier bucket was selected over one of higher
\* confidence that stood before it in the list
LowerConfidenceSelected ==
  /\ bench.stage = "ranked"
  /\ Len(bench.scored) = 2
  /\ bench.best.found
  /\ bench.best.match = bench.scored[2]
  /\ bench.scored[1].confidence > bench.scored[2].confidence
  /\ Bucket(bench.scored[2]) = 3

\* C30: a request whose text normalizes to the empty string finds no
\* candidate and leaves every file as it was
EmptyTextFindsNothing ==
  (bench.stage = "edited") =>
    /\ bench.list = <<>>
    /\ bench.after = bench.corpus
    /\ ~bench.result.success

\* C28: the substitution of an edit record is written to the source files at
\* most once, whatever the route and the runs of the script do
WrittenAtMostOnce == twin.writes <= 1

====
